---- MODULE Spec2Model ----
(***************************************************************************)
(* Log classification and evidence assembly of the dispute-resolution      *)
(* service: BlockchainService.parseLogs, getContractState and the          *)
(* resolveDispute run that calls them.                                      *)
(*                                                                         *)
(* Values are modelled as strings, as the JavaScript code holds them:      *)
(* addresses ("0x" followed by the low 20 bytes), amounts and token ids    *)
(* as decimal strings (the code calls toString() on every integer).        *)
(***************************************************************************)
EXTENDS Integers, Sequences, FiniteSets, TLC

\* JavaScript null.
NULL == "null"

\* A decoded item that throws when it is read (ethers keeps a decoding error
\* that is not a buffer overrun inside the Result and raises it on access).
ERR == "<error>"

\* Longest receipt (number of logs) the model enumerates.
MaxLogs == 2

\* Longest list of historical logs the provider answers with.
MaxHist == 2

\* Longest transfers sequence of a bundle handed to getContractState alone.
MaxTransfers == 2

\* Most reads that fail during one getContractState.
MaxFail == 2

\* Most provider queries the requests issue while initProvider is watched.
MaxIssued == 2

\* Calls of cacheData followed.
MaxWrites == 2

(***************************************************************************)
(* The three ABIs, events only.                                            *)
(***************************************************************************)
P(type, indexed) == [type |-> type, indexed |-> indexed]

ERC20_ABI ==
  << [name |-> "Transfer",
      inputs |-> << P("address", TRUE), P("address", TRUE), P("uint256", FALSE) >>] >>

ERC721_ABI ==
  << [name |-> "Transfer",
      inputs |-> << P("address", TRUE), P("address", TRUE), P("uint256", TRUE) >>] >>

DUMMY_DISPUTE_CONTRACT_ABI ==
  << [name |-> "Transfer",
      inputs |-> << P("address", TRUE), P("address", TRUE), P("uint256", FALSE) >>],
     [name |-> "TransferFailed",
      inputs |-> << P("address", TRUE), P("address", TRUE), P("uint256", FALSE),
                    P("string", FALSE) >>],
     [name |-> "PartialTransfer",
      inputs |-> << P("address", TRUE), P("address", TRUE), P("uint256", FALSE),
                    P("uint256", FALSE) >>],
     [name |-> "TokenMinted",
      inputs |-> << P("address", TRUE), P("uint256", FALSE) >>],
     [name |-> "TokenTransferFailed",
      inputs |-> << P("address", TRUE), P("address", TRUE), P("uint256", FALSE),
                    P("string", FALSE) >>] >>

(***************************************************************************)
(* Raw logs.                                                               *)
(*   topic: [kind, v]                                                      *)
(*     "addr"   66 characters of lower-case hex, high-order 12 bytes zero, *)
(*              low 20 bytes v                                             *)
(*     "word"   66 characters of lower-case hex, some high-order byte      *)
(*              non-zero, low 20 bytes v; an event selector is a word      *)
(*              whose v is the event's signature (standing for its hash)   *)
(*     "nonhex" 66 characters, one of the last 40 not a hex digit          *)
(*     "short"  a string of odd length other than 66                       *)
(*   data: [chunks, tail]: the full 32-byte chunks (an integer, or         *)
(*     BadChunk for a chunk that is not hex) and the number of bytes of a  *)
(*     trailing partial chunk                                              *)
(***************************************************************************)
Topic(kind, v) == [kind |-> kind, v |-> v]

Data(chunks, tail) == [chunks |-> chunks, tail |-> tail]

BadChunk == -1

RawLog(topics, data) == [topics |-> topics, data |-> data]

\* A log as the provider returns it, with its logIndex.
WithIndex(log, i) == [topics |-> log.topics, data |-> log.data, logIndex |-> i]

(***************************************************************************)
(* ethers.Interface: event signature, topic hash, getEvent.                *)
(***************************************************************************)
RECURSIVE JoinTypes(_)
JoinTypes(inputs) ==
  IF inputs = << >> THEN ""
  ELSE IF Len(inputs) = 1 THEN inputs[1].type
  ELSE inputs[1].type \o "," \o JoinTypes(Tail(inputs))

\* The canonical signature; the topic hash is its keccak256, for which the
\* signature itself stands (distinct signatures have distinct hashes).
TopicHash(fragment) == fragment.name \o "(" \o JoinTypes(fragment.inputs) \o ")"

\* Interface.getEvent(key) for a string key: the position of the fragment
\* whose topic hash is the key, 0 when there is none (getEvent returns null).
\* A key that is not a hex string is looked up as a bare event name, which
\* no fragment has.
GetEvent(abi, key) ==
  IF key.kind \in {"addr", "word"}
     /\ \E i \in 1..Len(abi) : TopicHash(abi[i]) = key.v
  THEN CHOOSE i \in 1..Len(abi) :
         /\ TopicHash(abi[i]) = key.v
         /\ \A j \in 1..(i - 1) : TopicHash(abi[j]) # key.v
  ELSE 0

(***************************************************************************)
(* ethers AbiCoder, as decodeEventLog uses it.                             *)
(***************************************************************************)
\* EIP-55: the mixed-case checksum form of 20 lower-case hex bytes.
Checksum(v) ==
  CASE v = "a1" -> "A1"
    [] v = "b2" -> "B2"
    [] OTHER -> v

\* ethers.getAddress / the address coder: the checksummed address.
Addr(v) == "0x" \o Checksum(v)

\* The decimal digits of a hex number.
HexToDec(v) ==
  CASE v = "a1" -> "161"
    [] v = "b2" -> "178"
    [] v = "07" -> "7"
    [] v = "08" -> "8"
    [] OTHER -> "dec(" \o v \o ")"

\* The decimal string of a 32-byte topic read as uint256.
TopicUint(t) ==
  IF t.kind = "addr" THEN HexToDec(t.v) ELSE "2^160*k+" \o HexToDec(t.v)

\* One static value decoded from a topic word.
DecodeTopic(type, t) ==
  IF type = "address"
  THEN IF t.kind = "addr" THEN Addr(t.v) ELSE ERR   \* value exceeds 20 bytes
  ELSE TopicUint(t)

Thrown == [ok |-> FALSE, args |-> << >>]

\* abiCoder.decode(indexed, concat(topics.slice(1))): concat raises on a
\* topic that is not valid hex, the reader raises BUFFER_OVERRUN when there
\* are fewer topics than indexed parameters; surplus topics are not read.
DecodeIndexed(params, ts) ==
  IF \E i \in 1..Len(ts) : ts[i].kind \in {"nonhex", "short"} THEN Thrown
  ELSE IF Len(ts) < Len(params) THEN Thrown
  ELSE [ok |-> TRUE,
        args |-> [i \in 1..Len(params) |-> DecodeTopic(params[i].type, ts[i])]]

\* The string the bytes of a decoded string parameter spell.
Utf8(len, words, fromTail) ==
  IF len = 0 THEN ""
  ELSE IF len = 29 /\ words = << 77 >> /\ ~fromTail
       THEN "Amount too high: exceeds 1000"
       ELSE "utf8(" \o ToString(len) \o "," \o ToString(words)
              \o (IF fromTail THEN "+tail" ELSE "") \o ")"

\* A dynamic string read at byte offset off of the data: [ok, v]; not ok is
\* BUFFER_OVERRUN. An offset that is not a multiple of 32 reads a length made
\* of the bytes of two neighbouring words, which overruns the data.
DecodeString(data, off) ==
  LET n     == Len(data.chunks)
      total == 32 * n + data.tail
      at    == off \div 32
  IN  IF off % 32 # 0 \/ at >= n THEN [ok |-> FALSE, v |-> ""]
      ELSE LET len     == data.chunks[at + 1]
               w       == (len + 31) \div 32
               full    == off + 32 + 32 * w <= total
               loose   == off + 32 + len <= total
               have    == IF full THEN w ELSE n - (at + 1)
               content == [k \in 1..have |-> data.chunks[at + 1 + k]]
           IN  IF ~(full \/ loose) THEN [ok |-> FALSE, v |-> ""]
               ELSE [ok |-> TRUE, v |-> Utf8(len, content, ~full)]

\* abiCoder.decode(nonIndexed, data, loose): getBytes raises on data that is
\* not hex; parameter i reads head word i (BUFFER_OVERRUN when the data is
\* shorter); a string's head word is the offset of its tail.
DecodeData(params, data) ==
  IF \E i \in 1..Len(data.chunks) : data.chunks[i] = BadChunk THEN Thrown
  ELSE IF Len(data.chunks) < Len(params) THEN Thrown
  ELSE IF \E i \in 1..Len(params) :
            /\ params[i].type = "string"
            /\ ~DecodeString(data, data.chunks[i]).ok
       THEN Thrown
       ELSE [ok |-> TRUE,
             args |-> [i \in 1..Len(params) |->
                         IF params[i].type = "string"
                         THEN DecodeString(data, data.chunks[i]).v
                         ELSE ToString(data.chunks[i])]]

Indexed(fragment) == SelectSeq(fragment.inputs, LAMBDA p : p.indexed)

NonIndexed(fragment) == SelectSeq(fragment.inputs, LAMBDA p : ~p.indexed)

\* How many of the first i inputs are indexed like input i: the position of
\* input i within its own (indexed or non-indexed) result.
RankOf(fragment, i) ==
  Cardinality({j \in 1..i : fragment.inputs[j].indexed = fragment.inputs[i].indexed})

\* Interface.decodeEventLog(fragment, data, topics): [ok, args], the
\* arguments in declaration order.
DecodeEventLog(fragment, data, topics) ==
  LET ri == DecodeIndexed(Indexed(fragment), Tail(topics))
      rn == DecodeData(NonIndexed(fragment), data)
  IN  IF ~ri.ok \/ ~rn.ok THEN Thrown
      ELSE [ok |-> TRUE,
            args |-> [i \in 1..Len(fragment.inputs) |->
                        IF fragment.inputs[i].indexed
                        THEN ri.args[RankOf(fragment, i)]
                        ELSE rn.args[RankOf(fragment, i)]]]

\* Interface.parseLog(log): [r, name, args] with r = "throw" (it raised),
\* "null" (no event of the ABI has the log's topic[0]) or "ok".
\* With no topics, getEvent(undefined) raises a TypeError.
ParseLog(abi, log) ==
  IF Len(log.topics) = 0 THEN [r |-> "throw", name |-> "", args |-> << >>]
  ELSE LET f == GetEvent(abi, log.topics[1])
       IN  IF f = 0 THEN [r |-> "null", name |-> "", args |-> << >>]
           ELSE LET d == DecodeEventLog(abi[f], log.data, log.topics)
                IN  IF ~d.ok THEN [r |-> "throw", name |-> "", args |-> << >>]
                    ELSE [r |-> "ok", name |-> abi[f].name, args |-> d.args]

\* Reading parsedLog.args[...] raises when an item holds a decoding error.
ArgsThrow(pl) == \E i \in 1..Len(pl.args) : pl.args[i] = ERR

(***************************************************************************)
(* parseLogs.                                                              *)
(***************************************************************************)
\* The bundle parseLogs starts from.
EmptyParsedLogs ==
  [transfers |-> << >>, failures |-> << >>, partialTransfers |-> << >>,
   contractType |-> NULL, contractInfo |-> << >>, unknownEvents |-> << >>]

\* What one try block leaves: the bundle, the parsed flag, and whether the
\* block raised (control then enters its catch).
Outcome(b, parsed, threw) == [b |-> b, parsed |-> parsed, threw |-> threw]

\* try { ERC-20 Transfer }
TryERC20(b, log) ==
  LET pl == ParseLog(ERC20_ABI, log)
  IN  IF pl.r = "throw" THEN Outcome(b, FALSE, TRUE)
      ELSE IF pl.r = "ok" /\ pl.name = "Transfer"
      THEN IF ArgsThrow(pl) THEN Outcome(b, FALSE, TRUE)
           ELSE Outcome([b EXCEPT
                  !.transfers = Append(@, [type |-> "ERC20", from |-> pl.args[1],
                                           to |-> pl.args[2], value |-> pl.args[3],
                                           logIndex |-> log.logIndex]),
                  !.contractType = "ERC20"], TRUE, FALSE)
      ELSE Outcome(b, FALSE, FALSE)

\* TryERC721 with contractType kept once it is set (first family wins).
TryERC721_KeepsFirstType(b, log) ==
  LET pl == ParseLog(ERC721_ABI, log)
  IN  IF pl.r = "throw" THEN Outcome(b, FALSE, TRUE)
      ELSE IF pl.r = "ok" /\ pl.name = "Transfer"
      THEN IF ArgsThrow(pl) THEN Outcome(b, FALSE, TRUE)
           ELSE Outcome([b EXCEPT
                  !.transfers = Append(@, [type |-> "ERC721", from |-> pl.args[1],
                                           to |-> pl.args[2], tokenId |-> pl.args[3],
                                           logIndex |-> log.logIndex]),
                  !.contractType = IF @ = NULL THEN "ERC721" ELSE @], TRUE, FALSE)
      ELSE Outcome(b, FALSE, FALSE)

\* catch (error) { try { ERC-721 Transfer }
TryERC721(b, log) ==
  LET pl == ParseLog(ERC721_ABI, log)
  IN  IF pl.r = "throw" THEN Outcome(b, FALSE, TRUE)
      ELSE IF pl.r = "ok" /\ pl.name = "Transfer"
      THEN IF ArgsThrow(pl) THEN Outcome(b, FALSE, TRUE)
           ELSE Outcome([b EXCEPT
                  !.transfers = Append(@, [type |-> "ERC721", from |-> pl.args[1],
                                           to |-> pl.args[2], tokenId |-> pl.args[3],
                                           logIndex |-> log.logIndex]),
                  !.contractType = "ERC721"], TRUE, FALSE)
      ELSE Outcome(b, FALSE, FALSE)

\* The record the DummyDisputeContract switch builds for event `name`.
DummyEvent(name, args, logIndex) ==
  CASE name = "Transfer" ->
         [type |-> "MonadToken", from |-> args[1], to |-> args[2],
          amount |-> args[3], logIndex |-> logIndex]
    [] name = "TransferFailed" ->
         [type |-> "TransferFailed", from |-> args[1], to |-> args[2],
          amount |-> args[3], reason |-> args[4], logIndex |-> logIndex]
    [] name = "PartialTransfer" ->
         [type |-> "PartialTransfer", from |-> args[1], to |-> args[2],
          requested |-> args[3], sent |-> args[4], logIndex |-> logIndex]
    [] name = "TokenMinted" ->
         [type |-> "TokenMinted", to |-> args[1], tokenId |-> args[2],
          logIndex |-> logIndex]
    [] name = "TokenTransferFailed" ->
         [type |-> "TokenTransferFailed", from |-> args[1], to |-> args[2],
          tokenId |-> args[3], reason |-> args[4], logIndex |-> logIndex]

\* The sequence of the bundle the switch pushes event `name` to.
DummyTarget(name) ==
  CASE name \in {"Transfer", "TokenMinted"} -> "transfers"
    [] name \in {"TransferFailed", "TokenTransferFailed"} -> "failures"
    [] name = "PartialTransfer" -> "partialTransfers"

\* catch (erc721Error) { try { DummyDisputeContract events } catch {} }
TryDummy(b, log) ==
  LET pl == ParseLog(DUMMY_DISPUTE_CONTRACT_ABI, log)
  IN  IF pl.r = "throw" THEN Outcome(b, FALSE, TRUE)
      ELSE IF pl.r = "ok"
      THEN IF ArgsThrow(pl) THEN Outcome(b, FALSE, TRUE)
           ELSE LET ev == DummyEvent(pl.name, pl.args, log.logIndex)
                    to == DummyTarget(pl.name)
                IN  Outcome([b EXCEPT ![to] = Append(@, ev),
                                      !.contractType = "MonadDummyContract"],
                            TRUE, FALSE)
      ELSE Outcome(b, FALSE, FALSE)

\* SchemaDispatch with the dispute-contract family tried first.
SchemaDispatch_DummyFirst(b, log) ==
  LET rd == TryDummy(b, log)
  IN  IF ~rd.threw THEN rd
      ELSE LET r20 == TryERC20(b, log)
           IN  IF ~r20.threw THEN r20
               ELSE TryERC721(b, log)

\* The nested try/catch chain of one loop iteration: a decoder is tried only
\* when the one before it raised.
SchemaDispatch(b, log) ==
  LET r20 == TryERC20(b, log)
  IN  IF ~r20.threw THEN r20
      ELSE LET r721 == TryERC721(b, log)
           IN  IF ~r721.threw THEN r721
               ELSE TryDummy(b, log)

\* The string of a topic kept as bytes32.
TopicString(t) == "0x[" \o t.kind \o "]" \o t.v

\* indexedParams entry of topic i >= 1: ethers.getAddress on the last 40
\* characters of a 66-character topic, bytes32 when it raises or when the
\* topic has another length.
IndexedParam(t) ==
  IF t.kind \in {"addr", "word", "nonhex"}            \* topic.length === 66
  THEN IF t.kind = "nonhex"                            \* getAddress raises
       THEN [type |-> "bytes32", value |-> TopicString(t)]
       ELSE [type |-> "address", value |-> Addr(t.v)]
  ELSE [type |-> "bytes32", value |-> TopicString(t)]

IndexedParams(log) ==
  [i \in 1..(Len(log.topics) - 1) |-> IndexedParam(log.topics[i + 1])]

\* nonIndexedParams entry of one full 64-character chunk.
ChunkParam(c) ==
  IF c = BadChunk THEN [type |-> "bytes", value |-> "0x<not hex>"]
  ELSE [type |-> "uint256", value |-> ToString(c)]

\* Every full chunk gives an entry, a trailing partial chunk gives none; data
\* of "0x" is skipped altogether, with the same result.
NonIndexedParams(log) ==
  [i \in 1..Len(log.data.chunks) |-> ChunkParam(log.data.chunks[i])]

\* InferPattern without the check of the second topic.
InferPattern_SecondUnchecked(ip, np) ==
  IF Len(ip) >= 2 /\ ip[1].type = "address"
  THEN [type |-> "Transfer", from |-> ip[1].value, to |-> ip[2].value,
        amount |-> IF Len(np) > 0 /\ np[1].type = "uint256"
                   THEN np[1].value ELSE NULL]
  ELSE IF Len(ip) >= 1 /\ ip[1].type = "address"
  THEN [type |-> "SingleAddress", from |-> ip[1].value, to |-> NULL,
        amount |-> NULL]
  ELSE [type |-> "Unknown", from |-> NULL, to |-> NULL, amount |-> NULL]

\* InferPattern with the single address looked for at every position.
InferPattern_AddressAnywhere(ip, np) ==
  LET at == { k \in 1..Len(ip) : ip[k].type = "address" }
  IN  IF Len(ip) >= 2 /\ ip[1].type = "address" /\ ip[2].type = "address"
      THEN [type |-> "Transfer", from |-> ip[1].value, to |-> ip[2].value,
            amount |-> IF Len(np) > 0 /\ np[1].type = "uint256"
                       THEN np[1].value ELSE NULL]
      ELSE IF Cardinality(at) = 1
      THEN [type |-> "SingleAddress", from |-> ip[CHOOSE k \in at : TRUE].value,
            to |-> NULL, amount |-> NULL]
      ELSE [type |-> "Unknown", from |-> NULL, to |-> NULL, amount |-> NULL]

\* Pattern inference over the decoded parameters.
InferPattern(ip, np) ==
  IF Len(ip) >= 2 /\ ip[1].type = "address" /\ ip[2].type = "address"
  THEN [type |-> "Transfer", from |-> ip[1].value, to |-> ip[2].value,
        amount |-> IF Len(np) > 0 /\ np[1].type = "uint256"
                   THEN np[1].value ELSE NULL]
  ELSE IF Len(ip) >= 1 /\ ip[1].type = "address"
  THEN [type |-> "SingleAddress", from |-> ip[1].value, to |-> NULL,
        amount |-> NULL]
  ELSE [type |-> "Unknown", from |-> NULL, to |-> NULL, amount |-> NULL]

\* The unknownEvents entry of a log (it has at least one topic).
UnknownEvent(log) ==
  LET ip  == IndexedParams(log)
      np  == NonIndexedParams(log)
      pat == InferPattern(ip, np)
  IN  [type |-> pat.type, eventSignature |-> TopicString(log.topics[1]),
       from |-> pat.from, to |-> pat.to, amount |-> pat.amount,
       indexedParams |-> ip, nonIndexedParams |-> np,
       logIndex |-> log.logIndex, rawData |-> log.data]

\* HeuristicFallback that records a log only while contractType is unset.
HeuristicFallback_OnlyWhileUntyped(b, parsed, log) ==
  IF ~parsed /\ Len(log.topics) > 0 /\ b.contractType = NULL
  THEN [b EXCEPT !.unknownEvents = Append(@, UnknownEvent(log)),
                 !.contractType = "Unknown"]
  ELSE b

\* HeuristicFallback that leaves contractType alone.
HeuristicFallback_LeavesType(b, parsed, log) ==
  IF ~parsed /\ Len(log.topics) > 0
  THEN [b EXCEPT !.unknownEvents = Append(@, UnknownEvent(log))]
  ELSE b

\* HeuristicFallback without the test of the parsed flag: a log a schema
\* family classified is recorded as an unknown event as well.
HeuristicFallback_Always(b, parsed, log) ==
  IF Len(log.topics) > 0
  THEN [b EXCEPT !.unknownEvents = Append(@, UnknownEvent(log)),
                 !.contractType = IF @ = NULL THEN "Unknown" ELSE @]
  ELSE b

\* if (!parsed && log.topics && log.topics.length > 0) { ... }
HeuristicFallback(b, parsed, log) ==
  IF ~parsed /\ Len(log.topics) > 0
  THEN [b EXCEPT !.unknownEvents = Append(@, UnknownEvent(log)),
                 !.contractType = IF @ = NULL THEN "Unknown" ELSE @]
  ELSE b

\* One iteration of the for loop of parseLogs.
ParseOne(b, log) ==
  LET r == SchemaDispatch(b, log)
  IN  HeuristicFallback(r.b, r.parsed, log)

\* parseLogs(logs, contractAddress): the loop over the whole batch.
RECURSIVE ParseFrom(_, _)
ParseFrom(b, logs) ==
  IF logs = << >> THEN b ELSE ParseFrom(ParseOne(b, Head(logs)), Tail(logs))

ParseLogs(logs) == ParseFrom(EmptyParsedLogs, logs)

(***************************************************************************)
(* getContractState.                                                       *)
(***************************************************************************)
\* state.x[k] = v on a JavaScript object used as a mapping.
Put(m, k, v) == [x \in (DOMAIN m) \cup {k} |-> IF x = k THEN v ELSE m[x]]

EmptyState == [balances |-> << >>, ownership |-> << >>, contractInfo |-> << >>]

\* What the contract answers to a read that does not fail.
\* An integer result is a BigInt, written here as in JavaScript ("18n"); the
\* code converts the balance with toString() and nothing else.
ReadValue(call) ==
  CASE call = "symbol" -> "TKN"
    [] call = "name" -> "Token"
    [] call = "decimals" -> "18n"
    [] call = "getTotalSupply" -> "1000000n"
    [] call = "getNextTokenId" -> "9n"
    [] call = "balanceOf" -> "100"
    [] OTHER -> "0xOwner"

BigInts == { "18n", "1000000n", "9n" }

\* The state getContractState returned holds a BigInt.
HasBigInt(st) ==
  \E k \in DOMAIN st.contractInfo : st.contractInfo[k] \in BigInts

OwnerOfCall(tokenId) == "ownerOf(" \o tokenId \o ")"

Read(call, key) == [call |-> call, key |-> key]

\* ReadInfo with every read in a try block of its own that stores an empty
\* string when the read fails.
RECURSIVE ReadInfo_EmptyOnFailure(_, _, _)
ReadInfo_EmptyOnFailure(acc, rs, failing) ==
  IF rs = << >> THEN acc
  ELSE LET r    == Head(rs)
           acc1 == [acc EXCEPT !.reads = Append(@, r.call)]
       IN  ReadInfo_EmptyOnFailure(
             [acc1 EXCEPT !.state.contractInfo =
                            Put(@, r.key, IF r.call \in failing THEN ""
                                          ELSE ReadValue(r.call))],
             Tail(rs), failing)

\* The reads of one try block that fill contractInfo, in order: the first one
\* that fails leaves the block, and the reads after it are not issued.
RECURSIVE ReadInfo(_, _, _)
ReadInfo(acc, rs, failing) ==
  IF rs = << >> THEN acc
  ELSE LET r    == Head(rs)
           acc1 == [acc EXCEPT !.reads = Append(@, r.call)]
       IN  IF r.call \in failing THEN acc1
           ELSE ReadInfo([acc1 EXCEPT !.state.contractInfo =
                                        Put(@, r.key, ReadValue(r.call))],
                         Tail(rs), failing)

\* if (toAddress) { try { balanceOf } catch {} }
ReadBalance(acc, toAddress, failing) ==
  IF toAddress = NULL THEN acc
  ELSE LET acc1 == [acc EXCEPT !.reads = Append(@, "balanceOf")]
       IN  IF "balanceOf" \in failing THEN acc1
           ELSE [acc1 EXCEPT !.state.balances =
                               Put(@, toAddress, ReadValue("balanceOf"))]

\* ReadOwnership that looks up the owner of every token of the family,
\* whoever received it.
RECURSIVE ReadOwnership_EveryToken(_, _, _, _, _)
ReadOwnership_EveryToken(acc, transfers, type, toAddress, failing) ==
  IF transfers = << >> THEN acc
  ELSE LET t == Head(transfers)
           rest == Tail(transfers)
       IN  IF t.type = type
           THEN LET call == OwnerOfCall(t.tokenId)
                    acc1 == [acc EXCEPT !.reads = Append(@, call)]
                IN  IF call \in failing
                    THEN ReadOwnership_EveryToken(acc1, rest, type, toAddress, failing)
                    ELSE ReadOwnership_EveryToken(
                           [acc1 EXCEPT !.state.ownership =
                                          Put(@, t.tokenId, ReadValue(call))],
                           rest, type, toAddress, failing)
           ELSE ReadOwnership_EveryToken(acc, rest, type, toAddress, failing)

\* for (const transfer of parsedLogs.transfers) { if (type, to) try { ownerOf } }
RECURSIVE ReadOwnership(_, _, _, _, _)
ReadOwnership(acc, transfers, type, toAddress, failing) ==
  IF transfers = << >> THEN acc
  ELSE LET t == Head(transfers)
           rest == Tail(transfers)
       IN  IF t.type = type /\ t.to = toAddress
           THEN LET call == OwnerOfCall(t.tokenId)
                    acc1 == [acc EXCEPT !.reads = Append(@, call)]
                IN  IF call \in failing
                    THEN ReadOwnership(acc1, rest, type, toAddress, failing)
                    ELSE ReadOwnership(
                           [acc1 EXCEPT !.state.ownership =
                                          Put(@, t.tokenId, ReadValue(call))],
                           rest, type, toAddress, failing)
           ELSE ReadOwnership(acc, rest, type, toAddress, failing)

ERC20Info == << Read("symbol", "symbol"), Read("name", "name"),
                Read("decimals", "decimals") >>

ERC721Info == << Read("symbol", "symbol"), Read("name", "name") >>

MonadInfo == << Read("getTotalSupply", "totalSupply"),
                Read("getNextTokenId", "nextTokenId") >>

\* GetContractStateOf that reads the balance whatever the contractType.
GetContractStateOf_BalanceAlways(pl, toAddress, failing) ==
  LET acc0 == [state |-> EmptyState, reads |-> << >>]
  IN  CASE pl.contractType = "ERC20" ->
             ReadBalance(ReadInfo(acc0, ERC20Info, failing), toAddress, failing)
        [] pl.contractType = "ERC721" ->
             ReadBalance(
               ReadOwnership(ReadInfo(acc0, ERC721Info, failing),
                             pl.transfers, "ERC721", toAddress, failing),
               toAddress, failing)
        [] pl.contractType = "MonadDummyContract" ->
             ReadOwnership(
               ReadBalance(ReadInfo(acc0, MonadInfo, failing), toAddress, failing),
               pl.transfers, "TokenMinted", toAddress, failing)
        [] OTHER -> ReadBalance(acc0, toAddress, failing)

\* getContractState(contractAddress, toAddress, parsedLogs): [state, reads],
\* the state returned and the provider reads issued, in order.
GetContractStateOf(pl, toAddress, failing) ==
  LET acc0 == [state |-> EmptyState, reads |-> << >>]
  IN  CASE pl.contractType = "ERC20" ->
             ReadBalance(ReadInfo(acc0, ERC20Info, failing), toAddress, failing)
        [] pl.contractType = "ERC721" ->
             ReadBalance(
               ReadOwnership(ReadInfo(acc0, ERC721Info, failing),
                             pl.transfers, "ERC721", toAddress, failing),
               toAddress, failing)
        [] pl.contractType = "MonadDummyContract" ->
             ReadOwnership(
               ReadBalance(ReadInfo(acc0, MonadInfo, failing), toAddress, failing),
               pl.transfers, "TokenMinted", toAddress, failing)
        [] OTHER -> acc0

(***************************************************************************)
(* getHistoricalLogs.                                                      *)
(***************************************************************************)
\* The width of the default window, in blocks.
BackfillBlocks == 1000

\* FromBlockNumber without the clamp at block 0.
FromBlockNumber_Unclamped(currentBlock) == currentBlock - BackfillBlocks

\* fromBlock || Math.max(0, currentBlock - 1000), for the call without a
\* fromBlock argument (the only call of the program).
FromBlockNumber(currentBlock) ==
  IF currentBlock - BackfillBlocks > 0 THEN currentBlock - BackfillBlocks ELSE 0

\* What the provider does when asked: getBlockNumber raises, or it returns
\* height and then getLogs raises or returns logs.
Answer(fail, height, historicalLogs) ==
  [fail |-> fail, height |-> height, logs |-> historicalLogs]

\* getHistoricalLogs(contractAddress): [logs, queries], the logs returned and
\* the filters of the getLogs calls issued. Any failure is caught and gives
\* the empty list.
GetHistoricalLogsOf(answer) ==
  IF answer.fail = "getBlockNumber"
  THEN [logs |-> << >>, queries |-> << >>]
  ELSE LET toBlock == answer.height
           filter  == [fromBlock |-> FromBlockNumber(answer.height),
                       toBlock |-> toBlock]
       IN  [logs |-> IF answer.fail = "getLogs" THEN << >> ELSE answer.logs,
            queries |-> << filter >>]

(***************************************************************************)
(* analyzeTransactionPattern.                                              *)
(***************************************************************************)
Tx(to, data, value) == [to |-> to, data |-> data, value |-> value]

Receipt(status, gasUsed) == [status |-> status, gasUsed |-> gasUsed]

\* transaction.to && transaction.data && transaction.data !== '0x'
ContractInteraction(transaction) ==
  transaction.to # NULL /\ transaction.data # "" /\ transaction.data # "0x"

\* transaction.value && transaction.value > 0
HasValue(transaction) == transaction.value > 0

\* PatternEvents that also counts the transfers a schema family classified.
PatternEvents_WithTransfers(pl) ==
  pl.unknownEvents \o
    [k \in 1..Len(pl.transfers) |->
       [type |-> "Transfer",
        amount |-> IF pl.transfers[k].type = "ERC20"
                   THEN pl.transfers[k].value ELSE NULL]]

\* The events the analysis loops over.
PatternEvents(pl) == pl.unknownEvents

\* The loop over the events: patterns pushed and valueTransferred overwritten.
RECURSIVE ScanEvents(_, _)
ScanEvents(acc, events) ==
  IF events = << >> THEN acc
  ELSE LET event == Head(events)
       IN  ScanEvents(
             IF event.type = "Transfer" /\ event.amount # NULL
             THEN [acc EXCEPT !.patterns = Append(@, "TOKEN_TRANSFER"),
                              !.valueTransferred = event.amount]
             ELSE IF event.type = "SingleAddress"
             THEN [acc EXCEPT !.patterns = Append(@, "SINGLE_ADDRESS_EVENT")]
             ELSE acc,
             Tail(events))

Includes(patterns, x) == \E k \in 1..Len(patterns) : patterns[k] = x

\* TransactionType with the token transfer tested first.
TransactionType_TokenFirst(patterns, contractInteraction) ==
  IF Includes(patterns, "TOKEN_TRANSFER") THEN "token_transfer"
  ELSE IF Includes(patterns, "ETH_TRANSFER") /\ contractInteraction
  THEN "contract_eth_transfer"
  ELSE IF contractInteraction THEN "contract_call"
  ELSE IF Includes(patterns, "ETH_TRANSFER") THEN "eth_transfer"
  ELSE "unknown"

\* The if / else-if cascade that sets analysis.transactionType.
TransactionType(patterns, contractInteraction) ==
  IF Includes(patterns, "ETH_TRANSFER") /\ contractInteraction
  THEN "contract_eth_transfer"
  ELSE IF Includes(patterns, "TOKEN_TRANSFER") THEN "token_transfer"
  ELSE IF contractInteraction THEN "contract_call"
  ELSE IF Includes(patterns, "ETH_TRANSFER") THEN "eth_transfer"
  ELSE "unknown"

\* The analysis object as it is declared.
InitialAnalysis(receipt) ==
  [transactionType |-> "unknown", valueTransferred |-> "0", eventsEmitted |-> 0,
   contractInteraction |-> FALSE, success |-> (receipt.status = 1),
   gasUsed |-> IF receipt.gasUsed = NULL THEN "0" ELSE receipt.gasUsed,
   patterns |-> << >>]

\* analyzeTransactionPattern(transaction, receipt, parsedLogs)
AnalyzeTransactionPattern(transaction, receipt, pl) ==
  LET a0 == InitialAnalysis(receipt)
      a1 == [a0 EXCEPT !.contractInteraction = ContractInteraction(transaction)]
      a2 == IF HasValue(transaction)
            THEN [a1 EXCEPT !.valueTransferred = ToString(transaction.value),
                            !.patterns = Append(@, "ETH_TRANSFER")]
            ELSE a1
      a3 == IF Len(PatternEvents(pl)) > 0
            THEN ScanEvents([a2 EXCEPT !.eventsEmitted = Len(PatternEvents(pl))],
                            PatternEvents(pl))
            ELSE a2
  IN  [a3 EXCEPT !.transactionType =
                   TransactionType(a3.patterns, a3.contractInteraction)]

(***************************************************************************)
(* initProvider.                                                           *)
(***************************************************************************)
\* const maxRetries = 3
InitMaxRetries == 3

\* The unit of the wait between two attempts, in milliseconds.
InitBackoffMs == 1000

\* The catch block of initProvider, entered with the count of the attempts
\* that failed before: retries++, then throw when the budget is spent,
\* otherwise wait 1000 * retries milliseconds.
InitCatch(retries) ==
  LET r == retries + 1
  IN  IF r >= InitMaxRetries
      THEN [retries |-> r, pc |-> "failed", waits |-> << >>]
      ELSE [retries |-> r, pc |-> "waiting", waits |-> << InitBackoffMs * r >>]

\* The statement after the probe, logger.info(... rpcUrl.includes('monad')
\* ...), raises a TypeError inside the try when no RPC URL is configured.
LogLineRaises(rpcUrl) == rpcUrl = NULL

(***************************************************************************)
(* getTransactionReceipt and getTransaction.                               *)
(***************************************************************************)
\* getTransactionReceipt(txHash, maxRetries = 3)
FetchMaxRetries == 3

\* setTimeout(resolve, 1000) between two calls of the receipt fetch.
FetchDelayMs == 1000

\* A fetch: where it is, the provider calls it has issued, the waits it has
\* made.
Fetch(st, calls, delays) == [st |-> st, calls |-> calls, delays |-> delays]

NotIssued == Fetch("idle", 0, << >>)

\* The function is called: it runs up to its first await, the provider call.
Issue(f) == [f EXCEPT !.st = "pending", !.calls = @ + 1]

\* How the receipt fetch goes on when its provider call has returned a
\* receipt ("value"), null ("null") or has raised ("raise").
ReceiptCallReturned(f, result) ==
  IF result = "raise"
  THEN IF f.calls >= FetchMaxRetries
       THEN [f EXCEPT !.st = "failed"]
       ELSE [f EXCEPT !.st = "waiting", !.delays = Append(@, FetchDelayMs)]
  ELSE [f EXCEPT !.st = IF result = "null" THEN "absent" ELSE "ok"]

\* How the transaction fetch goes on: the catch block logs and rethrows.
TransactionCallReturned(f, result) ==
  [f EXCEPT !.st = CASE result = "raise" -> "failed"
                     [] result = "null" -> "absent"
                     [] OTHER -> "ok"]

Settled(f) == f.st \in { "ok", "absent", "failed" }

(***************************************************************************)
(* The response of a run and the cache.                                    *)
(***************************************************************************)
\* The value of a property that was never assigned.
UNDEFINED == "undefined"

\* x?.toString() / transaction?.x on a value that may be null or undefined.
Optional(present, v) == IF present THEN v ELSE UNDEFINED

\* response.data of resolveDispute (steps 6 and 8).
DisputeData(txHash, contractAddress, toAddress, rc, t, tPresent, pl, st, aiSolution) ==
  [txHash |-> txHash, contractAddress |-> contractAddress,
   toAddress |-> toAddress,
   transactionStatus |-> IF rc.status = 1 THEN "success" ELSE "failed",
   aiSolution |-> aiSolution, parsedLogs |-> pl, contractState |-> st,
   transactionDetails |->
     [gasUsed |-> Optional(rc.gasUsed # NULL, rc.gasUsed),
      to |-> Optional(tPresent, t.to),
      value |-> Optional(tPresent, ToString(t.value))]]

\* response.data of getTransactionLogs.
LogsData(txHash, contractAddress, rc, t, tPresent, pl, st, nLogs) ==
  [transactionHash |-> txHash, contractAddress |-> contractAddress,
   transactionStatus |-> IF rc.status = 1 THEN "success" ELSE "failed",
   parsedLogs |-> [pl EXCEPT !.contractType = IF @ = NULL THEN "unknown" ELSE @],
   totalLogs |-> nLogs,
   contractLogs |-> Len(pl.transfers) + Len(pl.failures)
                      + Len(pl.partialTransfers) + Len(pl.unknownEvents),
   contractState |-> st,
   transactionDetails |->
     [gasUsed |-> IF rc.gasUsed # NULL THEN rc.gasUsed ELSE "0",
      to |-> IF tPresent /\ t.to # NULL THEN t.to ELSE "unknown",
      value |-> IF tPresent /\ t.value # 0 THEN ToString(t.value) ELSE "0"]]

\* CacheKey that leaves the target address out.
CacheKey_NoTarget(ep, txHash, contractAddress, toAddress) ==
  IF ep = "resolveDispute"
  THEN "dispute:" \o txHash \o ":" \o contractAddress
  ELSE "logs:" \o txHash \o ":" \o contractAddress

\* `dispute:${txHash}:${contractAddress}:${toAddress || 'null'}` and
\* `logs:${txHash}:${contractAddress}`
CacheKey(ep, txHash, contractAddress, toAddress) ==
  IF ep = "resolveDispute"
  THEN "dispute:" \o txHash \o ":" \o contractAddress \o ":"
         \o (IF toAddress \in { NULL, "" } THEN "null" ELSE toAddress)
  ELSE "logs:" \o txHash \o ":" \o contractAddress

\* What a request carries into its cache key.
CacheRequest(ep, txHash, contractAddress, target) ==
  [ep |-> ep, txHash |-> txHash, contractAddress |-> contractAddress,
   toAddress |-> target]

KeyOf(req) == CacheKey(req.ep, req.txHash, req.contractAddress, req.toAddress)

\* JSON.stringify raises a TypeError on a BigInt.
StringifyRaises(data) == HasBigInt(data.contractState)

\* A record without the properties whose value is undefined.
Defined(r) == [k \in { x \in DOMAIN r : r[x] # UNDEFINED } |-> r[k]]

\* JSON.stringify(data): the text, known by the value it denotes. Properties
\* that are undefined are left out.
Stringify(data) ==
  [json |-> [data EXCEPT !.transactionDetails = Defined(@)]]

\* JSON.parse(text)
Parse(text) == text.json

\* cacheData(key, data, ttl = 3600): the default of the ttl parameter, and
\* the ttl the runs pass.
DefaultTtl == 3600

RunTtl == 3600

\* The ttl argument: << >> when the caller leaves it out, << n >> otherwise.
Ttl(ttl) == IF ttl = << >> THEN DefaultTtl ELSE ttl[1]

\* What a cache read gives: nothing, or a value.
Absent == [found |-> FALSE]

Found(v) == [found |-> TRUE, value |-> v]

\* No getCachedData call has been made.
NoGet == [key |-> NULL, at |-> 0, result |-> Absent]

\* CacheData that does not replace what the key holds: the classified
\* evidence of the old value stays under the new one.
CacheData_Merging(store, mode, key, data, ttl, now) ==
  IF mode = "none" \/ mode = "down" \/ StringifyRaises(data) THEN store
  ELSE LET new == Stringify(data)
           old == IF key \in DOMAIN store THEN store[key].text ELSE new
       IN  Put(store, key,
               [text |-> [new EXCEPT !.json.parsedLogs = old.json.parsedLogs],
                expires |-> now + Ttl(ttl)])

\* CacheDataRaises without the try / catch around setEx.
CacheDataRaises_Uncaught(mode, data) ==
  mode = "down" \/ (mode = "up" /\ StringifyRaises(data))

\* cacheData raises to its caller: never, the body after the test of the
\* client is one try block whose catch logs.
CacheDataRaises(mode, data) == FALSE

\* cacheData(key, data, ttl): the store afterwards. Without a client nothing
\* is done; an error of JSON.stringify or of setEx is caught and logged.
CacheData(store, mode, key, data, ttl, now) ==
  IF mode = "none" THEN store
  ELSE IF mode = "down" \/ StringifyRaises(data) THEN store
  ELSE Put(store, key, [text |-> Stringify(data), expires |-> now + Ttl(ttl)])

\* Redis GET: a key that has expired is gone.
RedisGet(store, key, now) ==
  IF key \in DOMAIN store /\ now < store[key].expires
  THEN Found(store[key].text) ELSE Absent

\* getCachedData(key)
GetCachedData(store, mode, key, now) ==
  IF mode = "none" THEN Absent
  ELSE IF mode = "down" THEN Absent
  ELSE LET raw == RedisGet(store, key, now)
       IN  IF raw.found THEN Found(Parse(raw.value)) ELSE Absent

(***************************************************************************)
(* Inputs.                                                                 *)
(***************************************************************************)
Sel(fragment) == Topic("word", TopicHash(fragment))

SelTransfer == Sel(ERC20_ABI[1])

SelTransferFailed == Sel(DUMMY_DISPUTE_CONTRACT_ABI[2])

SelPartialTransfer == Sel(DUMMY_DISPUTE_CONTRACT_ABI[3])

SelTokenMinted == Sel(DUMMY_DISPUTE_CONTRACT_ABI[4])

SelTokenTransferFailed == Sel(DUMMY_DISPUTE_CONTRACT_ABI[5])

\* The selector of an event no ABI declares.
SelOther == Topic("word", "Approval(address,address,uint256)")

A1 == Topic("addr", "a1")

B2 == Topic("addr", "b2")

Id7 == Topic("addr", "07")

Wide == Topic("word", "a1")

NonHex == Topic("nonhex", "zz")

Short == Topic("short", "a1")

NoData == Data(<< >>, 0)

OneWord == Data(<< 1500 >>, 0)

\* abi.encode(uint256 1500, string "Amount too high: exceeds 1000")
AmountReason == Data(<< 1500, 64, 29, 77 >>, 0)

\* Logs whose topic[0] is the Transfer selector.
TransferLogs ==
  { RawLog(<< SelTransfer >> \o args, d) :
      args \in { << A1, B2 >>, << A1, B2, Id7 >>, << A1, Wide >>, << A1 >> },
      d \in { NoData, OneWord } }

\* Well-formed logs of the events only the dispute contract declares.
DisputeLogs ==
  { RawLog(<< SelTransferFailed, A1, B2 >>, AmountReason),
    RawLog(<< SelPartialTransfer, A1, B2 >>, Data(<< 1000, 500 >>, 0)),
    RawLog(<< SelTokenMinted, A1 >>, Data(<< 7 >>, 0)),
    RawLog(<< SelTokenTransferFailed, A1, B2 >>, Data(<< 999, 64, 0 >>, 0)) }

\* Logs of an event no ABI declares, with every shape of topic list.
OtherLogs ==
  { RawLog(<< SelOther >> \o args, d) :
      args \in { << >>, << A1 >>, << A1, B2 >>, << Wide >>, << Wide, Wide >>,
                 << Short, A1 >>, << A1, NonHex >>, << A1, Short, B2 >>,
                 << NonHex >> },
      d \in { NoData, OneWord } }
  \cup
  { RawLog(<< SelOther, A1, B2 >>, d) :
      d \in { Data(<< BadChunk >>, 0), Data(<< >>, 4), Data(<< 5, 1500 >>, 4) } }

\* Logs without a usable selector: no topic at all (an anonymous event), and
\* a topic[0] that is not a hex string.
OddLogs ==
  { RawLog(<< >>, OneWord), RawLog(<< >>, NoData), RawLog(<< NonHex, A1 >>, NoData) }

LogPool == TransferLogs \cup DisputeLogs \cup OtherLogs \cup OddLogs

\* The logs the whole-run specification draws from.
RunLogPool ==
  { RawLog(<< SelTransfer, A1, B2 >>, OneWord),
    RawLog(<< SelTransfer, B2, A1, Id7 >>, NoData),
    RawLog(<< SelTransferFailed, A1, B2 >>, AmountReason),
    RawLog(<< SelOther, A1, B2 >>, OneWord) }

SeqsUpTo(S, n) == UNION { [1..k -> S] : k \in 0..n }

\* The provider numbers the logs it returns.
Indexed0(s) == [i \in 1..Len(s) |-> WithIndex(s[i], i - 1)]

\* The toAddress a request carries, as resolveDispute passes it on
\* (toAddress || null): absent, checksummed, or the same address in lower case.
ToAddresses == { NULL, "0xA1", "0xa1", "0xB2" }

AllReads ==
  { "symbol", "name", "decimals", "getTotalSupply", "getNextTokenId", "balanceOf",
    OwnerOfCall("7"), OwnerOfCall("8") }

FailSets == { f \in SUBSET AllReads : Cardinality(f) <= MaxFail }

\* Entries of transfers, as the schema decoders build them.
TransferEvents ==
  { [type |-> "ERC20", from |-> "0xA1", to |-> "0xB2", value |-> "1500", logIndex |-> 0],
    [type |-> "ERC721", from |-> "0xB2", to |-> "0xA1", tokenId |-> "7", logIndex |-> 0],
    [type |-> "ERC721", from |-> "0xA1", to |-> "0xB2", tokenId |-> "8", logIndex |-> 0],
    [type |-> "TokenMinted", to |-> "0xA1", tokenId |-> "7", logIndex |-> 0],
    [type |-> "TokenMinted", to |-> "0xB2", tokenId |-> "8", logIndex |-> 0] }

ContractTypes == { NULL, "ERC20", "ERC721", "MonadDummyContract", "Unknown" }

\* The bundles getContractState is called with when it is exercised alone.
BundlePool ==
  { [EmptyParsedLogs EXCEPT !.contractType = ct, !.transfers = ts] :
      ct \in ContractTypes, ts \in SeqsUpTo(TransferEvents, MaxTransfers) }

\* The block heights the provider reports.
Heights == { 0, 1, 999, 1000, 1001, 2500 }

\* What the provider answers to the calls of getHistoricalLogs.
HistoryAnswers ==
  { Answer("getBlockNumber", 0, << >>) }
    \cup { Answer("getLogs", h, << >>) : h \in Heights }
    \cup { Answer("none", h, Indexed0(l)) :
             h \in Heights, l \in SeqsUpTo(RunLogPool, MaxHist) }

\* Transactions: a plain payment or a call, to a contract or creating one.
TxPool ==
  { Tx(to, data, value) :
      to \in { NULL, "0xC0" }, data \in { "0x", "0xa9059cbb" }, value \in { 0, 5 } }

\* The transactions of a run: sent to the disputed contract.
RunTxPool == { t \in TxPool : t.to # NULL }

ReceiptPool == { Receipt(1, "21000"), Receipt(0, "21000") }

\* Logs of every kind the pattern analysis tells apart.
PatternLogPool ==
  RunLogPool \cup
    { RawLog(<< SelOther, A1, B2 >>, NoData),
      RawLog(<< SelOther, A1 >>, NoData),
      RawLog(<< SelOther, Wide >>, OneWord) }

Endpoints == { "resolveDispute", "getTransactionLogs" }

\* The requests whose runs write the cache: a dispute without target, with a
\* target, with the same target in lower case, and a log query.
PlainDispute == CacheRequest("resolveDispute", "0xT1", "0xC0", NULL)

CacheRequests ==
  { PlainDispute,
    CacheRequest("resolveDispute", "0xT1", "0xC0", "0xA1"),
    CacheRequest("resolveDispute", "0xT1", "0xC0", "0xa1"),
    CacheRequest("getTransactionLogs", "0xT1", "0xC0", NULL) }

\* What a run found: the bundle parseLogs returned and the reads that failed.
Evidence(pl, failed) == [parsed |-> pl, failing |-> failed]

NoEvidence == Evidence(EmptyParsedLogs, {})

\* The bundle of a receipt with one ERC-20 Transfer.
OneTransferParsed ==
  [EmptyParsedLogs EXCEPT
     !.contractType = "ERC20",
     !.transfers = << [type |-> "ERC20", from |-> "0xA1", to |-> "0xB2",
                       value |-> "1500", logIndex |-> 0] >>]

\* response.data of the run of req that found ev.
BundleOf(req, ev) ==
  LET rc == Receipt(1, "21000")
      t  == Tx("0xC0", "0xa9059cbb", 0)
  IN  IF req.ep = "resolveDispute"
      THEN DisputeData(req.txHash, req.contractAddress, req.toAddress, rc, t,
                       TRUE, ev.parsed,
                       GetContractStateOf(ev.parsed, req.toAddress, ev.failing).state,
                       "AI text")
      ELSE LogsData(req.txHash, req.contractAddress, rc, t, TRUE, ev.parsed,
                    GetContractStateOf(ev.parsed, NULL, ev.failing).state,
                    Len(ev.parsed.transfers))

\* A cacheData call to come: the request of the run, what the run found, the
\* ttl argument (<< >> when left out).
PutOf(req, ev, ttl) == [req |-> req, ev |-> ev, ttl |-> ttl]

TransferSeen == Evidence(OneTransferParsed, {})

TransferSeenNoSymbol == Evidence(OneTransferParsed, { "symbol" })

\* The cacheData calls made: those of the runs, with their ttl of 3600, and
\* one that leaves the ttl out. A resolveDispute run whose contract state
\* holds a BigInt ends at the AI call and never reaches cacheData. Two
\* findings are followed for the dispute without target and for the log
\* query, one for the other requests.
CachePuts ==
  { PutOf(PlainDispute, NoEvidence, << RunTtl >>),
    PutOf(PlainDispute, NoEvidence, << >>),
    PutOf(PlainDispute, TransferSeenNoSymbol, << RunTtl >>),
    PutOf(CacheRequest("resolveDispute", "0xT1", "0xC0", "0xA1"),
          TransferSeenNoSymbol, << RunTtl >>),
    PutOf(CacheRequest("resolveDispute", "0xT1", "0xC0", "0xa1"),
          TransferSeenNoSymbol, << RunTtl >>),
    PutOf(CacheRequest("getTransactionLogs", "0xT1", "0xC0", NULL),
          TransferSeenNoSymbol, << RunTtl >>),
    PutOf(CacheRequest("getTransactionLogs", "0xT1", "0xC0", NULL),
          TransferSeen, << RunTtl >>) }

\* The moments looked at: the write, the last second before its expiry, the
\* expiry.
TimePoints == { 0, 3599, 3600 }

\* The provider queries of the runs.
ProviderQueries ==
  { "getTransactionReceipt", "getTransaction", "getLogs", "getBlockNumber" }

(***************************************************************************)
(* State.                                                                  *)
(***************************************************************************)
VARIABLES
  pc,             \* where the run is
  endpoint,       \* the controller handling the request
  logs,           \* receipt.logs, the batch parseLogs loops over
  idx,            \* logs already handled by the loop of parseLogs
  parsedLogs,     \* the bundle
  toAddress,      \* the request's toAddress || null
  failing,        \* the contract reads that raise
  state,          \* what getContractState returned
  reads,          \* contract reads issued, in order
  historical,     \* what the provider answers to the historical getLogs
  height,         \* what the provider answers to getBlockNumber
  histFail,       \* the provider call of getHistoricalLogs that raises
  histCalls,      \* calls of getHistoricalLogs so far
  queries,        \* filters of the getLogs calls issued, in order
  tx,             \* the transaction fetched
  receipt,        \* status and gasUsed of the receipt fetched
  analysis,       \* what analyzeTransactionPattern returned
  initPc,         \* where initProvider is
  retries,        \* initProvider: attempts that failed so far
  waits,          \* initProvider: the waits made, in milliseconds
  probes,         \* initProvider: how the getNetwork probe of each attempt ended
  probeOk,        \* the probe of the handle in this.provider has succeeded
  rpcUrl,         \* MONAD_RPC_URL || ETHEREUM_RPC_URL
  issued,         \* provider queries issued by requests, in order
  rcpt,           \* the receipt fetch of the run
  txf,            \* the transaction fetch of the run
  trail,          \* the steps the run has made, in order
  ai,             \* how the call of aiService.resolveDispute ended
  db,             \* how dispute.save() ended
  cacheMode,      \* Redis: no client ("none"), a client that raises ("down"), "up"
  cache,          \* Redis: key -> text and expiry
  now,            \* the clock, in seconds
  wrote,          \* the calls of cacheData, in order
  got             \* what the last getCachedData returned

request == << endpoint, toAddress, failing, tx, receipt >>

history == << historical, height, histFail, histCalls, queries >>

conn == << initPc, retries, waits, probes, probeOk, rpcUrl, issued >>

\* Everything outside the steps 2 to 5 of a run.
fetch == << rcpt, txf >>

collab == << ai, db >>

cachev == << cacheMode, cache, now, wrote, got >>

service == << conn, fetch, collab, cachev >>

vars ==
  << pc, logs, idx, parsedLogs, state, reads, analysis, request, history, service,
     trail >>

TypeOK ==
  /\ pc \in { "idle", "start", "fetch", "notFound", "error", "parseLogs",
               "parsed", "stateRead", "backfilled", "analyzed", "aiDone",
               "persisted", "cached", "responded" }
  /\ endpoint \in Endpoints
  /\ idx \in 0..Len(logs)
  /\ parsedLogs.contractType \in ContractTypes
  /\ histCalls \in Nat
  /\ Len(queries) <= histCalls
  /\ initPc \in { "probing", "waiting", "ready", "failed" }
  /\ retries \in 0..InitMaxRetries
  /\ probeOk \in BOOLEAN

\* ParseLogStep without the catch of the last decoder: when every decoder
\* raised, the error reaches the catch around the loop and the rest of the
\* batch is left unclassified.
ParseLogStep_OuterCatch ==
  /\ pc = "parseLogs"
  /\ idx < Len(logs)
  /\ LET r == SchemaDispatch(parsedLogs, logs[idx + 1])
     IN  IF r.threw
         THEN parsedLogs' = parsedLogs /\ idx' = Len(logs)
         ELSE /\ parsedLogs' = HeuristicFallback(r.b, r.parsed, logs[idx + 1])
              /\ idx' = idx + 1
  /\ UNCHANGED << pc, logs, state, reads, analysis, request, history,
                  service, trail >>

(***************************************************************************)
(* Steps.                                                                  *)
(***************************************************************************)
\* One iteration of the loop of parseLogs over receipt.logs.
ParseLogStep ==
  /\ pc = "parseLogs"
  /\ idx < Len(logs)
  /\ parsedLogs' = ParseOne(parsedLogs, logs[idx + 1])
  /\ idx' = idx + 1
  /\ UNCHANGED << pc, logs, state, reads, analysis, request, history,
                  service, trail >>

\* The loop is over: return parsedLogs.
ParseLogsReturn ==
  /\ pc = "parseLogs"
  /\ idx = Len(logs)
  /\ pc' = "parsed"
  /\ trail' = Append(trail, "classify")
  /\ UNCHANGED << logs, idx, parsedLogs, state, reads, analysis, request,
                  history, service >>

\* Step 3 of resolveDispute, and the same call of getTransactionLogs:
\* getContractState.
GetContractState ==
  /\ pc = "parsed"
  /\ LET r == GetContractStateOf(parsedLogs, toAddress, failing)
     IN  /\ state' = r.state
         /\ reads' = r.reads
  /\ pc' = "stateRead"
  /\ trail' = Append(trail, "state")
  /\ UNCHANGED << logs, idx, parsedLogs, analysis, request, history, service >>

\* BackfillMerge that also merges the historical Transfer-shaped unknown events.
BackfillMerge_WithUnknown(pl, historicalLogs) ==
  IF Len(pl.transfers) = 0
  THEN [pl EXCEPT !.transfers = @ \o ParseLogs(historicalLogs).transfers
                                  \o ParseLogs(historicalLogs).unknownEvents]
  ELSE pl

\* BackfillMerge that merges every sequence of the historical bundle.
BackfillMerge_EverySequence(pl, historicalLogs) ==
  IF Len(pl.transfers) = 0
  THEN LET h == ParseLogs(historicalLogs)
       IN  [pl EXCEPT !.transfers = @ \o h.transfers,
                      !.failures = @ \o h.failures,
                      !.partialTransfers = @ \o h.partialTransfers,
                      !.unknownEvents = @ \o h.unknownEvents]
  ELSE pl

\* BackfillMerge that takes over the contractType of the historical
\* classification with its transfers.
BackfillMerge_WithType(pl, historicalLogs) ==
  IF Len(pl.transfers) = 0
  THEN [pl EXCEPT !.transfers = @ \o ParseLogs(historicalLogs).transfers,
                  !.contractType = IF ParseLogs(historicalLogs).contractType # NULL
                                   THEN ParseLogs(historicalLogs).contractType
                                   ELSE @]
  ELSE pl

\* The transfers of the bundle after step 4 of resolveDispute.
BackfillMerge(pl, historicalLogs) ==
  IF Len(pl.transfers) = 0
  THEN [pl EXCEPT !.transfers = @ \o ParseLogs(historicalLogs).transfers]
  ELSE pl

\* NeedsBackfill that asks for history only when the receipt gave no event
\* at all.
NeedsBackfill_NoEvent(pl) ==
  Len(pl.transfers) = 0 /\ Len(pl.unknownEvents) = 0

\* if (parsedLogs.transfers.length === 0)
NeedsBackfill(pl) == Len(pl.transfers) = 0

\* AfterBackfill that asks for history again while no transfer is found.
AfterBackfill_Retry(pl) ==
  IF Len(pl.transfers) = 0 THEN "stateRead" ELSE "backfilled"

\* Step 4 is an if, not a loop: whatever the bundle after it, step 5 follows.
AfterBackfill(pl) == "backfilled"

\* Backfill with a getHistoricalLogs that has no catch: a call that raises
\* takes the run to the catch block of the controller.
Backfill_FailureEscapes ==
  /\ pc = "stateRead"
  /\ endpoint = "resolveDispute"
  /\ IF NeedsBackfill(parsedLogs)
     THEN \E a \in HistoryAnswers :
            LET r == GetHistoricalLogsOf(a)
            IN  /\ historical' = a.logs
                /\ height' = a.height
                /\ histFail' = a.fail
                /\ histCalls' = histCalls + 1
                /\ queries' = queries \o r.queries
                /\ parsedLogs' = BackfillMerge(parsedLogs, r.logs)
                /\ trail' = Append(trail, "backfill")
                /\ pc' = IF a.fail = "none" THEN AfterBackfill(parsedLogs')
                         ELSE "error"
     ELSE /\ UNCHANGED << parsedLogs, history, trail >>
          /\ pc' = AfterBackfill(parsedLogs')
  /\ UNCHANGED << logs, idx, state, reads, analysis, request, service >>

\* Step 4 of resolveDispute: historical logs, when no transfer was found.
Backfill ==
  /\ pc = "stateRead"
  /\ endpoint = "resolveDispute"
  /\ IF NeedsBackfill(parsedLogs)
     THEN \E a \in HistoryAnswers :
            LET r == GetHistoricalLogsOf(a)
            IN  /\ historical' = a.logs
                /\ height' = a.height
                /\ histFail' = a.fail
                /\ histCalls' = histCalls + 1
                /\ queries' = queries \o r.queries
                /\ parsedLogs' = BackfillMerge(parsedLogs, r.logs)
                /\ trail' = Append(trail, "backfill")
     ELSE UNCHANGED << parsedLogs, history, trail >>
  /\ pc' = AfterBackfill(parsedLogs')
  /\ UNCHANGED << logs, idx, state, reads, analysis, request, service >>

\* AnalyzePattern of an analyzer that reads the transaction with optional
\* chaining: an absent transaction is analysed as one without target and value.
AnalyzePattern_NullSafe ==
  /\ pc = "backfilled"
  /\ analysis' = AnalyzeTransactionPattern(
                   IF txf.st = "absent" THEN Tx(NULL, "0x", 0) ELSE tx,
                   receipt, parsedLogs)
  /\ pc' = "analyzed"
  /\ trail' = Append(trail, "analysis")
  /\ UNCHANGED << logs, idx, parsedLogs, state, reads, request, history, service >>

\* Step 5 of resolveDispute: analyzeTransactionPattern. With a transaction
\* that is null, transaction.to raises a TypeError and the run ends in the
\* catch block of the controller.
AnalyzePattern ==
  /\ pc = "backfilled"
  /\ IF txf.st = "absent"
     THEN pc' = "error" /\ UNCHANGED analysis
     ELSE /\ analysis' = AnalyzeTransactionPattern(tx, receipt, parsedLogs)
          /\ pc' = "analyzed"
  /\ trail' = Append(trail, "analysis")
  /\ UNCHANGED << logs, idx, parsedLogs, state, reads, request, history, service >>

\* The transaction hash and the contract address of the request of the run.
RunTxHash == "0xT1"

RunContract == "0xC0"

\* The cacheData call of the run: request, key and data.
RunRequest == CacheRequest(endpoint, RunTxHash, RunContract, toAddress)

RunCacheKey == KeyOf(RunRequest)

RunData(aiSolution) ==
  IF endpoint = "resolveDispute"
  THEN DisputeData(RunTxHash, RunContract, toAddress, receipt, tx,
                   txf.st = "ok", parsedLogs, state, aiSolution)
  ELSE LogsData(RunTxHash, RunContract, receipt, tx, txf.st = "ok", parsedLogs,
                state, Len(logs))

\* One call of cacheData: its arguments, its time, the backend at that time,
\* and whether it raised.
CacheCall(req, data, ttl) ==
  [req |-> req, key |-> KeyOf(req), data |-> data, ttl |-> ttl, at |-> now,
   mode |-> cacheMode, raised |-> CacheDataRaises(cacheMode, data)]

\* getTransactionLogs after getContractState: the response is built, cached
\* and sent; res.json raises on a BigInt, and the catch answers 500.
LogsResponse ==
  /\ pc = "stateRead"
  /\ endpoint = "getTransactionLogs"
  /\ LET data == RunData(NULL)
     IN  /\ cache' = CacheData(cache, cacheMode, RunCacheKey, data, << RunTtl >>, now)
         /\ wrote' = Append(wrote, CacheCall(RunRequest, data, << RunTtl >>))
         /\ pc' = IF CacheDataRaises(cacheMode, data) \/ StringifyRaises(data)
                  THEN "error" ELSE "responded"
  /\ trail' = trail \o << "cache", "respond" >>
  /\ UNCHANGED << logs, idx, parsedLogs, state, reads, analysis, request,
                  history, conn, fetch, collab, cacheMode, now, got >>

\* AfterAi that swallows the failure, as step 9 does with the database.
AfterAi_Continues(r) == "aiDone"

\* Where the run goes after the AI call: its rejection is not caught before
\* the catch block of the controller.
AfterAi(r) == IF r = "ok" THEN "aiDone" ELSE "error"

\* Step 7 of resolveDispute: aiService.resolveDispute(disputeData). Building
\* the prompt runs JSON.stringify(contractState), which raises on a BigInt;
\* that and every failure of the API come out as 'AI service failed: ...'.
AiCall ==
  /\ pc = "analyzed"
  /\ \E r \in IF HasBigInt(state) THEN { "failed" } ELSE { "ok", "failed" } :
       /\ ai' = r
       /\ pc' = AfterAi(r)
  /\ trail' = Append(trail, "ai")
  /\ UNCHANGED << logs, idx, parsedLogs, state, reads, analysis, request,
                  history, conn, fetch, db, cachev >>

\* Step 9 of resolveDispute: dispute.save() in a try of its own.
Persist ==
  /\ pc = "aiDone"
  /\ db' \in { "saved", "failed" }
  /\ pc' = "persisted"
  /\ trail' = Append(trail, "persist")
  /\ UNCHANGED << logs, idx, parsedLogs, state, reads, analysis, request,
                  history, conn, fetch, ai, cachev >>

\* Step 10 of resolveDispute: cacheData(cacheKey, response.data, 3600).
CacheStore ==
  /\ pc = "persisted"
  /\ LET data == RunData("AI text")
     IN  /\ cache' = CacheData(cache, cacheMode, RunCacheKey, data, << RunTtl >>, now)
         /\ wrote' = Append(wrote, CacheCall(RunRequest, data, << RunTtl >>))
         /\ pc' = IF CacheDataRaises(cacheMode, data) THEN "error" ELSE "cached"
  /\ trail' = Append(trail, "cache")
  /\ UNCHANGED << logs, idx, parsedLogs, state, reads, analysis, request,
                  history, conn, fetch, collab, cacheMode, now, got >>

\* res.json(response) of resolveDispute.
Respond ==
  /\ pc = "cached"
  /\ pc' = IF StringifyRaises(RunData("AI text")) THEN "error" ELSE "responded"
  /\ trail' = Append(trail, "respond")
  /\ UNCHANGED << logs, idx, parsedLogs, state, reads, analysis, request,
                  history, service >>

\* StartFetch of a controller that looks the key up first and answers from
\* the cache when the entry is there.
StartFetch_CacheFirst ==
  /\ pc = "start"
  /\ LET hit == GetCachedData(cache, cacheMode, RunCacheKey, now)
     IN  IF hit.found
         THEN /\ got' = [key |-> RunCacheKey, at |-> now, result |-> hit]
              /\ pc' = "responded"
              /\ trail' = Append(trail, "respond")
              /\ UNCHANGED fetch
         ELSE /\ rcpt' = Issue(rcpt)
              /\ txf' = IF endpoint = "resolveDispute" THEN Issue(txf) ELSE txf
              /\ pc' = "fetch"
              /\ trail' = Append(trail, "fetch")
              /\ UNCHANGED got
  /\ UNCHANGED << logs, idx, parsedLogs, state, reads, analysis, request,
                  history, conn, collab, cacheMode, cache, now, wrote >>

\* Step 1. resolveDispute builds the array of Promise.all: both functions are
\* called, and each runs up to its provider call, before anything is
\* awaited. getTransactionLogs calls getTransactionReceipt and awaits it.
StartFetch ==
  /\ pc = "start"
  /\ rcpt' = Issue(rcpt)
  /\ txf' = IF endpoint = "resolveDispute" THEN Issue(txf) ELSE txf
  /\ pc' = "fetch"
  /\ trail' = Append(trail, "fetch")
  /\ UNCHANGED << logs, idx, parsedLogs, state, reads, analysis, request,
                  history, conn, collab, cachev >>

\* The provider call of the receipt fetch returns or raises.
ReceiptReturns ==
  /\ rcpt.st = "pending"
  /\ \E result \in { "value", "null", "raise" } :
       rcpt' = ReceiptCallReturned(rcpt, result)
  /\ UNCHANGED << pc, logs, idx, parsedLogs, state, reads, analysis, request,
                  history, conn, txf, collab, cachev, trail >>

\* The wait of the receipt fetch is over: the next iteration calls again.
ReceiptRetry ==
  /\ rcpt.st = "waiting"
  /\ rcpt' = Issue(rcpt)
  /\ UNCHANGED << pc, logs, idx, parsedLogs, state, reads, analysis, request,
                  history, conn, txf, collab, cachev, trail >>

\* The provider call of the transaction fetch returns or raises.
TransactionReturns ==
  /\ txf.st = "pending"
  /\ \E result \in { "value", "null", "raise" } :
       txf' = TransactionCallReturned(txf, result)
  /\ UNCHANGED << pc, logs, idx, parsedLogs, state, reads, analysis, request,
                  history, conn, rcpt, collab, cachev, trail >>

\* AfterReceipt without the test of the receipt.
AfterReceipt_Proceeds(f) == "parseLogs"

\* Where the run goes once the receipt is there: if (!receipt) return 404.
AfterReceipt(f) == IF f.st = "absent" THEN "notFound" ELSE "parseLogs"

\* AllResolved that waits for the receipt only.
AllResolved_ReceiptOnly(r, t) == r.st \in { "ok", "absent" }

\* Promise.all resolves: every promise of the array has resolved.
AllResolved(r, t) == r.st \in { "ok", "absent" } /\ t.st \in { "ok", "absent" }

\* resolveDispute: await Promise.all([...]) rejects as soon as one of the two
\* rejects, and resolves when both have resolved; then the receipt is tested.
AwaitAll ==
  /\ pc = "fetch"
  /\ endpoint = "resolveDispute"
  /\ \/ /\ rcpt.st = "failed" \/ txf.st = "failed"
        /\ pc' = "error"
     \/ /\ AllResolved(rcpt, txf)
        /\ pc' = AfterReceipt(rcpt)
  /\ UNCHANGED << logs, idx, parsedLogs, state, reads, analysis, request,
                  history, service, trail >>

\* getTransactionLogs: the awaited receipt fetch has settled; with a receipt,
\* getTransaction is called.
AwaitReceipt ==
  /\ pc = "fetch"
  /\ endpoint = "getTransactionLogs"
  /\ txf.st = "idle"
  /\ Settled(rcpt)
  /\ IF rcpt.st = "failed" THEN pc' = "error" /\ UNCHANGED txf
     ELSE IF rcpt.st = "absent" THEN pc' = AfterReceipt(rcpt) /\ UNCHANGED txf
     ELSE txf' = Issue(txf) /\ UNCHANGED pc
  /\ UNCHANGED << logs, idx, parsedLogs, state, reads, analysis, request,
                  history, conn, rcpt, collab, cachev, trail >>

\* getTransactionLogs: the awaited transaction fetch has settled.
AwaitTransaction ==
  /\ pc = "fetch"
  /\ endpoint = "getTransactionLogs"
  /\ Settled(txf)
  /\ pc' = IF txf.st = "failed" THEN "error" ELSE "parseLogs"
  /\ UNCHANGED << logs, idx, parsedLogs, state, reads, analysis, request,
                  history, service, trail >>

\* A run, or any other caller, calls cacheData.
CachePut ==
  /\ Len(wrote) < MaxWrites
  /\ \E c \in CachePuts :
       LET data == BundleOf(c.req, c.ev)
       IN  /\ cache' = CacheData(cache, cacheMode, KeyOf(c.req), data, c.ttl, now)
           /\ wrote' = Append(wrote, CacheCall(c.req, data, c.ttl))
  /\ got' = NoGet
  /\ UNCHANGED << pc, logs, idx, parsedLogs, state, reads, analysis, request,
                  history, conn, fetch, collab, cacheMode, now, trail >>

\* A caller calls getCachedData.
CacheGet ==
  /\ \E req \in CacheRequests :
       got' = [key |-> KeyOf(req), at |-> now,
               result |-> GetCachedData(cache, cacheMode, KeyOf(req), now)]
  /\ UNCHANGED << pc, logs, idx, parsedLogs, state, reads, analysis, request,
                  history, conn, fetch, collab, cacheMode, cache, now, wrote,
                  trail >>

\* Time passes.
Tick ==
  /\ \E t \in TimePoints : t > now /\ now' = t
  /\ got' = NoGet
  /\ UNCHANGED << pc, logs, idx, parsedLogs, state, reads, analysis, request,
                  history, conn, fetch, collab, cacheMode, cache, wrote, trail >>

\* The connection of the Redis client drops or comes back.
BackendFlips ==
  /\ cacheMode \in { "up", "down" }
  /\ cacheMode' = IF cacheMode = "up" THEN "down" ELSE "up"
  /\ got' = NoGet
  /\ UNCHANGED << pc, logs, idx, parsedLogs, state, reads, analysis, request,
                  history, conn, fetch, collab, cache, now, wrote, trail >>

\* The probe of the current attempt, await this.provider.getNetwork(),
\* resolves; the log line follows, and then the break.
InitProbeSucceeds ==
  /\ initPc = "probing"
  /\ probes' = Append(probes, "ok")
  /\ probeOk' = TRUE
  /\ IF LogLineRaises(rpcUrl)
     THEN LET c == InitCatch(retries)
          IN  /\ retries' = c.retries
              /\ initPc' = c.pc
              /\ waits' = waits \o c.waits
     ELSE /\ initPc' = "ready"
          /\ UNCHANGED << retries, waits >>
  /\ UNCHANGED << pc, logs, idx, parsedLogs, state, reads, analysis, request,
                  fetch, collab, cachev, trail,
                  history, rpcUrl, issued >>

\* The probe of the current attempt rejects: the catch block.
InitProbeFails ==
  /\ initPc = "probing"
  /\ probes' = Append(probes, "fail")
  /\ LET c == InitCatch(retries)
     IN  /\ retries' = c.retries
         /\ initPc' = c.pc
         /\ waits' = waits \o c.waits
  /\ UNCHANGED << pc, logs, idx, parsedLogs, state, reads, analysis, request,
                  fetch, collab, cachev, trail,
                  history, probeOk, rpcUrl, issued >>

\* The wait is over: the loop creates a new provider and probes it.
InitNextAttempt ==
  /\ initPc = "waiting"
  /\ initPc' = "probing"
  /\ probeOk' = FALSE
  /\ UNCHANGED << pc, logs, idx, parsedLogs, state, reads, analysis, request,
                  fetch, collab, cachev, trail,
                  history, retries, waits, probes, rpcUrl, issued >>

\* A request calls this.provider.<query>(...): this.provider is set from the
\* first statement of the first attempt on, and nothing else is tested.
IssueQuery ==
  /\ Len(issued) < MaxIssued
  /\ \E q \in ProviderQueries :
       issued' = Append(issued, [query |-> q, during |-> initPc, probed |-> probeOk])
  /\ UNCHANGED << pc, logs, idx, parsedLogs, state, reads, analysis, request,
                  fetch, collab, cachev, trail,
                  history, initPc, retries, waits, probes, probeOk, rpcUrl >>

(***************************************************************************)
(* Specifications.                                                         *)
(***************************************************************************)
\* Step 1 of the run is over: receipt and transaction are there.
Fetched ==
  /\ rcpt = Fetch("ok", 1, << >>)
  /\ txf = Fetch("ok", 1, << >>)
  /\ trail = << "fetch" >>

\* Nothing handed to the collaborators yet.
NoCollab == ai = "none" /\ db = "none"

\* An empty cache at time 0.
CacheEmpty ==
  /\ cache = << >>
  /\ now = 0
  /\ wrote = << >>
  /\ got = NoGet

\* The provider is initialised and no request has asked it anything.
ServiceReady ==
  /\ initPc = "ready"
  /\ retries = 0
  /\ waits = << >>
  /\ probes = << "ok" >>
  /\ probeOk = TRUE
  /\ rpcUrl = "https://testnet-rpc.monad.xyz"
  /\ issued = << >>

\* Nothing asked of the provider about history yet.
NoHistory ==
  /\ historical = << >>
  /\ height = 0
  /\ histFail = "none"
  /\ histCalls = 0
  /\ queries = << >>

\* parseLogs alone, on every batch of up to MaxLogs logs of LogPool.
InitParse ==
  /\ pc = "parseLogs"
  /\ endpoint = "resolveDispute"
  /\ logs \in { Indexed0(s) : s \in SeqsUpTo(LogPool, MaxLogs) }
  /\ idx = 0
  /\ parsedLogs = EmptyParsedLogs
  /\ toAddress = NULL
  /\ failing = {}
  /\ state = EmptyState
  /\ reads = << >>
  /\ NoHistory
  /\ ServiceReady
  /\ Fetched
  /\ NoCollab
  /\ cacheMode = "up"
  /\ CacheEmpty
  /\ tx = Tx("0xC0", "0x", 0)
  /\ receipt = Receipt(1, "21000")
  /\ analysis = InitialAnalysis(receipt)

NextParse == ParseLogStep \/ ParseLogsReturn

SpecParse == InitParse /\ [][NextParse]_vars

\* getContractState alone, on a given bundle.
InitState ==
  /\ pc = "parsed"
  /\ endpoint = "resolveDispute"
  /\ logs = << >>
  /\ idx = 0
  /\ parsedLogs \in BundlePool
  /\ toAddress \in ToAddresses
  /\ failing \in FailSets
  /\ state = EmptyState
  /\ reads = << >>
  /\ NoHistory
  /\ ServiceReady
  /\ Fetched
  /\ NoCollab
  /\ cacheMode = "up"
  /\ CacheEmpty
  /\ tx = Tx("0xC0", "0x", 0)
  /\ receipt = Receipt(1, "21000")
  /\ analysis = InitialAnalysis(receipt)

NextState == GetContractState

SpecState == InitState /\ [][NextState]_vars

\* analyzeTransactionPattern alone, on the bundle of a batch of up to MaxLogs
\* logs of PatternLogPool.
InitAnalyze ==
  /\ pc = "backfilled"
  /\ endpoint = "resolveDispute"
  /\ logs \in { Indexed0(s) : s \in SeqsUpTo(PatternLogPool, MaxLogs) }
  /\ idx = Len(logs)
  /\ parsedLogs = ParseLogs(logs)
  /\ toAddress = NULL
  /\ failing = {}
  /\ state = EmptyState
  /\ reads = << >>
  /\ NoHistory
  /\ ServiceReady
  /\ Fetched
  /\ NoCollab
  /\ cacheMode = "up"
  /\ CacheEmpty
  /\ tx \in TxPool
  /\ receipt \in ReceiptPool
  /\ analysis = InitialAnalysis(receipt)

NextAnalyze == AnalyzePattern

SpecAnalyze == InitAnalyze /\ [][NextAnalyze]_vars

\* No run is in progress.
NoRequest ==
  /\ pc = "idle"
  /\ endpoint = "resolveDispute"
  /\ logs = << >>
  /\ idx = 0
  /\ parsedLogs = EmptyParsedLogs
  /\ toAddress = NULL
  /\ failing = {}
  /\ state = EmptyState
  /\ reads = << >>
  /\ NoHistory
  /\ tx = Tx("0xC0", "0x", 0)
  /\ receipt = Receipt(1, "21000")
  /\ analysis = InitialAnalysis(receipt)
  /\ rcpt = NotIssued
  /\ txf = NotIssued
  /\ trail = << >>
  /\ NoCollab

NoRun == NoRequest /\ cacheMode = "up" /\ CacheEmpty

\* The service from its construction on: the constructor has called
\* initProvider, which has created the first provider and awaits its probe,
\* while requests ask the provider whenever they arrive.
InitInitProvider ==
  /\ NoRun
  /\ initPc = "probing"
  /\ retries = 0
  /\ waits = << >>
  /\ probes = << >>
  /\ probeOk = FALSE
  /\ rpcUrl \in { "https://testnet-rpc.monad.xyz", NULL }
  /\ issued = << >>

NextInitProvider ==
  InitProbeSucceeds \/ InitProbeFails \/ InitNextAttempt \/ IssueQuery

SpecInitProvider == InitInitProvider /\ [][NextInitProvider]_vars

\* The cache of the service under the cacheData calls of finished runs and
\* getCachedData calls, over time and with the backend coming and going.
InitCache ==
  /\ NoRequest
  /\ ServiceReady
  /\ cacheMode \in { "none", "up", "down" }
  /\ CacheEmpty

NextCache == CachePut \/ CacheGet \/ Tick \/ BackendFlips

SpecCache == InitCache /\ [][NextCache]_vars

\* response.data of another run of the same request, which found one Transfer
\* and no symbol.
PeerData == BundleOf(RunRequest, TransferSeenNoSymbol)

\* PeerCaches of a service that keeps the bundle under classification in a
\* field of its own: the other run's parseLogs replaces the bundle of this one.
PeerCaches_SharedBundle ==
  /\ cacheMode = "up"
  /\ LET data == PeerData
     IN  /\ RunCacheKey \in DOMAIN cache => cache[RunCacheKey].text # Stringify(data)
         /\ cache' = CacheData(cache, cacheMode, RunCacheKey, data, << RunTtl >>, now)
         /\ parsedLogs' = data.parsedLogs
  /\ UNCHANGED << pc, logs, idx, state, reads, analysis, request,
                  history, conn, fetch, collab, cacheMode, now, wrote, got, trail >>

\* Another run of the same request ends while this one is under way: its
\* cacheData call writes its response under the key of this run. The service
\* object the two runs share holds the provider and the cache client only.
PeerCaches ==
  /\ cacheMode = "up"
  /\ LET data == PeerData
     IN  /\ RunCacheKey \in DOMAIN cache => cache[RunCacheKey].text # Stringify(data)
         /\ cache' = CacheData(cache, cacheMode, RunCacheKey, data, << RunTtl >>, now)
  /\ UNCHANGED << pc, logs, idx, parsedLogs, state, reads, analysis, request,
                  history, conn, fetch, collab, cacheMode, now, wrote, got, trail >>

\* The receipts a whole run is followed on: no log, a fungible transfer, an
\* event no ABI declares.
StartLogPool ==
  { << >>,
    << RawLog(<< SelTransfer, A1, B2 >>, OneWord) >>,
    << RawLog(<< SelOther, A1, B2 >>, OneWord) >> }

\* One run of resolveDispute or of getTransactionLogs from the request to the
\* response, with every way the provider, the AI service, the database and
\* the cache can answer.
InitRun ==
  /\ pc = "start"
  /\ endpoint \in Endpoints
  /\ logs \in { Indexed0(l) : l \in StartLogPool }
  /\ idx = 0
  /\ parsedLogs = EmptyParsedLogs
  /\ toAddress \in IF endpoint = "resolveDispute" THEN { NULL, "0xA1" } ELSE { NULL }
  /\ failing \in { {}, { "symbol" } }
  /\ state = EmptyState
  /\ reads = << >>
  /\ NoHistory
  /\ ServiceReady
  /\ tx = Tx("0xC0", "0xa9059cbb", 0)
  /\ receipt = Receipt(1, "21000")
  /\ analysis = InitialAnalysis(receipt)
  /\ rcpt = NotIssued
  /\ txf = NotIssued
  /\ trail = << >>
  /\ NoCollab
  /\ cacheMode \in { "none", "down", "up" }
  /\ CacheEmpty

NextRun ==
  \/ StartFetch
  \/ ReceiptReturns
  \/ ReceiptRetry
  \/ TransactionReturns
  \/ AwaitAll
  \/ AwaitReceipt
  \/ AwaitTransaction
  \/ ParseLogStep
  \/ ParseLogsReturn
  \/ GetContractState
  \/ Backfill
  \/ AnalyzePattern
  \/ AiCall
  \/ Persist
  \/ CacheStore
  \/ Respond
  \/ LogsResponse
  \/ PeerCaches

SpecRun == InitRun /\ [][NextRun]_vars

\* One run of resolveDispute, from the receipt to the pattern analysis, or of
\* getTransactionLogs, from the receipt to the response.
Init ==
  /\ pc = "parseLogs"
  /\ endpoint \in Endpoints
  /\ logs \in { Indexed0(s) : s \in SeqsUpTo(RunLogPool, MaxLogs) }
  /\ idx = 0
  /\ parsedLogs = EmptyParsedLogs
  /\ toAddress \in IF endpoint = "resolveDispute" THEN { NULL, "0xA1" } ELSE { NULL }
  /\ failing \in { {}, { "symbol" } }
  /\ state = EmptyState
  /\ reads = << >>
  /\ NoHistory
  /\ ServiceReady
  /\ Fetched
  /\ NoCollab
  /\ cacheMode = "up"
  /\ CacheEmpty
  /\ tx \in RunTxPool
  /\ receipt \in ReceiptPool
  /\ analysis = InitialAnalysis(receipt)

Next ==
  \/ ParseLogStep
  \/ ParseLogsReturn
  \/ GetContractState
  \/ Backfill
  \/ AnalyzePattern
  \/ LogsResponse

Spec == Init /\ [][Next]_vars

(***************************************************************************)
(* Vocabulary of the properties.                                           *)
(***************************************************************************)
Range(f) == { f[k] : k \in DOMAIN f }

\* The logs of the batch the loop has handled so far.
Handled == { logs[i] : i \in 1..idx }

\* The entries of the three sequences the schema decoders fill.
SchemaEntries(b) == b.transfers \o b.failures \o b.partialTransfers

\* How many entries of a sequence come from the log with index li.
CountAt(entries, li) ==
  Cardinality({ k \in 1..Len(entries) : entries[k].logIndex = li })

\* The family an entry's type tag belongs to.
FamilyOfType(type) ==
  CASE type = "ERC20" -> "ERC20"
    [] type = "ERC721" -> "ERC721"
    [] OTHER -> "MonadDummyContract"

Families == { "ERC20", "ERC721", "MonadDummyContract" }

AbiOf(family) ==
  CASE family = "ERC20" -> ERC20_ABI
    [] family = "ERC721" -> ERC721_ABI
    [] family = "MonadDummyContract" -> DUMMY_DISPUTE_CONTRACT_ABI

\* The family's decoder accepts the log: its topic[0] is the selector of one
\* of the family's events and every argument decodes.
Accepts(family, log) ==
  LET pl == ParseLog(AbiOf(family), log)
  IN  pl.r = "ok" /\ ~ArgsThrow(pl)

\* The first family, in registry order, whose decoder accepts the log.
FirstFamily(log) ==
  IF Accepts("ERC20", log) THEN "ERC20"
  ELSE IF Accepts("ERC721", log) THEN "ERC721"
  ELSE IF Accepts("MonadDummyContract", log) THEN "MonadDummyContract"
  ELSE NULL

\* The two leading non-selector topics of an unknown event decoded as addresses.
TwoLeadingAddresses(e) ==
  /\ Len(e.indexedParams) >= 2
  /\ e.indexedParams[1].type = "address"
  /\ e.indexedParams[2].type = "address"

FirstIsAddress(e) ==
  Len(e.indexedParams) >= 1 /\ e.indexedParams[1].type = "address"

LastSchemaEntry(b) ==
  CHOOSE e \in Range(SchemaEntries(b)) :
    \A o \in Range(SchemaEntries(b)) : o.logIndex <= e.logIndex

C2_FirstMatchingFamilyClassifies ==
  \A log \in Handled :
    FirstFamily(log) # NULL =>
      /\ CountAt(SchemaEntries(parsedLogs), log.logIndex) = 1
      /\ \A e \in Range(SchemaEntries(parsedLogs)) :
           e.logIndex = log.logIndex => FamilyOfType(e.type) = FirstFamily(log)
      /\ CountAt(parsedLogs.unknownEvents, log.logIndex) = 0

(***************************************************************************)
(* C3 (as stated): a handled, well-formed TransferFailed log (a selector   *)
(* only the dispute contract declares, two padded address topics, data     *)
(* (amount, reason)) is classified by the dispute decoder: exactly one     *)
(* entry {type: TransferFailed, from, to, amount as a decimal string,      *)
(* reason} in failures, and none in unknownEvents.                         *)
(***************************************************************************)
C3_DisputeEventsClassified ==
  \A log \in Handled :
    (/\ Len(log.topics) > 0
     /\ log.topics[1] = SelTransferFailed
     /\ Accepts("MonadDummyContract", log)) =>
      LET pl == ParseLog(DUMMY_DISPUTE_CONTRACT_ABI, log)
      IN  /\ DummyEvent(pl.name, pl.args, log.logIndex)
               \in Range(parsedLogs[DummyTarget(pl.name)])
          /\ CountAt(SchemaEntries(parsedLogs), log.logIndex) = 1
          /\ CountAt(parsedLogs.unknownEvents, log.logIndex) = 0

\* The handled logs no schema family classified.
Unclassified ==
  { log \in Handled : CountAt(SchemaEntries(parsedLogs), log.logIndex) = 0 }

(***************************************************************************)
(* C4 (as stated): every handled log that no schema family classified,     *)
(* whatever its shape, has exactly one entry in unknownEvents.             *)
(***************************************************************************)
C4_EveryUnclassifiedLogIsUnknown ==
  \A log \in Unclassified : CountAt(parsedLogs.unknownEvents, log.logIndex) = 1

(***************************************************************************)
(* C4 (amended): every handled log that no schema family classified and    *)
(* that has at least one topic has exactly one entry in unknownEvents,     *)
(* also when its topics or data are malformed strings; a log with an empty *)
(* topic list is dropped (no entry), and a classified log has none.        *)
(***************************************************************************)
C4_UnknownUnlessNoTopics ==
  \A log \in Handled :
    CountAt(parsedLogs.unknownEvents, log.logIndex) =
      (IF log \in Unclassified /\ Len(log.topics) > 0 THEN 1 ELSE 0)

\* A log with a malformed topic and a log without topics were handled: one
\* entry for the first, none for the second.
C4_Witness ==
  /\ idx = 2
  /\ logs[1].topics = << SelOther, Short, A1 >>
  /\ logs[2].topics = << >>
  /\ Len(parsedLogs.unknownEvents) = 1

(***************************************************************************)
(* C5 (as stated): in every unknownEvent, unless the two leading topics    *)
(* decoded as addresses, from and to are both null.                        *)
(***************************************************************************)
C5_FromToOnlyWithTwoAddresses ==
  \A e \in Range(parsedLogs.unknownEvents) :
    ~TwoLeadingAddresses(e) => e.from = NULL /\ e.to = NULL

(***************************************************************************)
(* C5 (amended): in every unknownEvent, to is populated exactly when the   *)
(* two leading topics decoded as addresses (it is the second), and from is *)
(* populated exactly when the first topic decoded as an address (it is the *)
(* first), so a single-address event has from set and to null.             *)
(***************************************************************************)
C5_FromWithOneToWithTwo ==
  \A e \in Range(parsedLogs.unknownEvents) :
    /\ e.to = (IF TwoLeadingAddresses(e) THEN e.indexedParams[2].value ELSE NULL)
    /\ e.from = (IF FirstIsAddress(e) THEN e.indexedParams[1].value ELSE NULL)

\* A single-address event: from set, to null.
C5_Witness ==
  \E e \in Range(parsedLogs.unknownEvents) :
    /\ FirstIsAddress(e) /\ ~TwoLeadingAddresses(e)
    /\ Len(e.indexedParams) = 2
    /\ e.from = "0xA1" /\ e.to = NULL

(***************************************************************************)
(* C6 (as stated): a non-selector topic is decoded as an address if and    *)
(* only if its high-order 12 bytes are zero.                               *)
(***************************************************************************)
C6_AddressIffHighBytesZero ==
  \A log \in Handled :
    \A e \in Range(parsedLogs.unknownEvents) :
      e.logIndex = log.logIndex =>
        \A k \in 1..Len(e.indexedParams) :
          (e.indexedParams[k].type = "address") <=> (log.topics[k + 1].kind = "addr")

(***************************************************************************)
(* C7 (as stated): the type of an unknownEvent is 'Transfer' when the two  *)
(* leading topics are addresses, 'SingleAddress' when exactly one of the   *)
(* non-selector topics is an address, wherever it is, 'Unknown' otherwise. *)
(***************************************************************************)
C7_SingleAddressAnywhere ==
  \A e \in Range(parsedLogs.unknownEvents) :
    LET n == Cardinality({ k \in 1..Len(e.indexedParams) :
                             e.indexedParams[k].type = "address" })
    IN  e.type = (IF TwoLeadingAddresses(e) THEN "Transfer"
                  ELSE IF n = 1 THEN "SingleAddress" ELSE "Unknown")

(***************************************************************************)
(* C7 (amended): the type of an unknownEvent is 'Transfer' when the two    *)
(* leading topics decoded as addresses (amount is then the first data      *)
(* chunk when it decoded as an integer, else null), 'SingleAddress' when   *)
(* the first non-selector topic decoded as an address and the second did   *)
(* not or is absent, 'Unknown' otherwise (amount null in both cases).      *)
(***************************************************************************)
C7_SingleAddressLeading ==
  \A e \in Range(parsedLogs.unknownEvents) :
    /\ e.type = (IF TwoLeadingAddresses(e) THEN "Transfer"
                 ELSE IF FirstIsAddress(e) THEN "SingleAddress" ELSE "Unknown")
    /\ e.amount =
         (IF /\ TwoLeadingAddresses(e)
             /\ Len(e.nonIndexedParams) > 0
             /\ e.nonIndexedParams[1].type = "uint256"
          THEN e.nonIndexedParams[1].value ELSE NULL)

\* The one address-like topic is the second one: the event is 'Unknown'.
C7_Witness ==
  \E e \in Range(parsedLogs.unknownEvents) :
    /\ Len(e.indexedParams) = 2
    /\ e.indexedParams[1].type = "bytes32"
    /\ e.indexedParams[2].type = "address"
    /\ e.type = "Unknown"

\* The logs a schema decoder may have classified by now in this run.
SeenByRun ==
  Handled \cup (IF pc \in { "backfilled", "analyzed" } THEN Range(historical) ELSE {})

(***************************************************************************)
(* C8: heuristic events stay in unknownEvents. In every state of a run,    *)
(* before and after backfill, each entry of transfers, failures and        *)
(* partialTransfers carries a schema decoder's type tag, comes from a log  *)
(* that the decoder of that family accepts, and is no unknownEvents entry  *)
(* (of the receipt or of the historical logs).                             *)
(***************************************************************************)
C8_HeuristicEventsStayUnknown ==
  \A e \in Range(SchemaEntries(parsedLogs)) :
    /\ e.type \in { "ERC20", "ERC721", "MonadToken", "TokenMinted",
                    "TransferFailed", "TokenTransferFailed", "PartialTransfer" }
    /\ \E log \in SeenByRun :
         log.logIndex = e.logIndex /\ Accepts(FamilyOfType(e.type), log)
    /\ e \notin Range(parsedLogs.unknownEvents)
    /\ \A h \in Range(historical) :
         Len(h.topics) > 0 => e # UnknownEvent(h)

\* Backfill ran over a heuristic Transfer-shaped log and a fungible transfer:
\* only the second was merged.
C8_Witness ==
  /\ pc = "backfilled"
  /\ Len(historical) = 2
  /\ historical[1].topics[1] = SelOther
  /\ historical[2].topics[1] = SelTransfer
  /\ Len(parsedLogs.unknownEvents) = 1
  /\ Len(parsedLogs.transfers) = 1
  /\ parsedLogs.transfers[1].logIndex = 1

(***************************************************************************)
(* C9: after parseLogs has returned, contractType is non-null exactly when *)
(* at least one log of the batch was decoded, by a schema family or by the *)
(* heuristic path.                                                         *)
(***************************************************************************)
C9_ContractTypeSetIffDecoded ==
  pc = "parsed" =>
    (parsedLogs.contractType # NULL
       <=> \E log \in Handled :
             CountAt(SchemaEntries(parsedLogs) \o parsedLogs.unknownEvents,
                     log.logIndex) > 0)

\* A batch whose only decoded log went through the heuristic path.
C9_Witness ==
  /\ pc = "parsed"
  /\ Len(logs) = 2
  /\ logs[1].topics = << >>
  /\ Len(parsedLogs.unknownEvents) = 1
  /\ SchemaEntries(parsedLogs) = << >>
  /\ parsedLogs.contractType = "Unknown"

\* The reads getContractState has to attempt for the bundle's family.
DueReads ==
  LET owners(type) ==
        { OwnerOfCall(t.tokenId) :
            t \in { x \in Range(parsedLogs.transfers) :
                      x.type = type /\ x.to = toAddress } }
      balance == IF toAddress = NULL THEN {} ELSE { "balanceOf" }
  IN  CASE parsedLogs.contractType = "ERC20" ->
             { "symbol", "name", "decimals" } \cup balance
        [] parsedLogs.contractType = "ERC721" ->
             { "symbol", "name" } \cup balance \cup owners("ERC721")
        [] parsedLogs.contractType = "MonadDummyContract" ->
             { "getTotalSupply", "getNextTokenId" } \cup balance
               \cup owners("TokenMinted")
        [] OTHER -> {}

\* The field of the returned state that read r fills is present.
FieldPresent(r) ==
  CASE r \in { "symbol", "name", "decimals" } -> r \in DOMAIN state.contractInfo
    [] r = "getTotalSupply" -> "totalSupply" \in DOMAIN state.contractInfo
    [] r = "getNextTokenId" -> "nextTokenId" \in DOMAIN state.contractInfo
    [] r = "balanceOf" -> toAddress \in DOMAIN state.balances
    [] OTHER -> \E id \in DOMAIN state.ownership : r = OwnerOfCall(id)

(***************************************************************************)
(* C10 (as stated): after getContractState, every read of the family that  *)
(* does not fail has its field in the result, whichever other reads fail.  *)
(***************************************************************************)
C10_FailingReadSkipsNoOther ==
  pc = "stateRead" =>
    \A r \in DueReads : r \notin failing => FieldPresent(r)

\* getContractState has returned.
\* The run has passed the step named.
Did(step) == \E i \in DOMAIN trail : trail[i] = step

StateWasRead == Did("state")

(***************************************************************************)
(* C11: when contractType is the fungible family and the symbol read fails,*)
(* getContractState returns normally and contractInfo has no symbol key    *)
(* (no key of contractInfo holds an empty string either), and the run goes *)
(* on through the steps that follow.                                       *)
(***************************************************************************)
C11_FailedSymbolLeavesKeyAbsent ==
  StateWasRead /\ parsedLogs.contractType = "ERC20" /\ "symbol" \in failing =>
    /\ "symbol" \notin DOMAIN state.contractInfo
    /\ \A k \in DOMAIN state.contractInfo : state.contractInfo[k] # ""

C11_Witness ==
  /\ pc = "analyzed"
  /\ parsedLogs.contractType = "ERC20"
  /\ "symbol" \in failing
  /\ reads = << "symbol", "balanceOf" >>
  /\ "symbol" \notin DOMAIN state.contractInfo
  /\ toAddress \in DOMAIN state.balances

(***************************************************************************)
(* C12: when contractType is null or names no schema family,               *)
(* getContractState issues no provider read and returns the three empty    *)
(* mappings, whatever the target address and the transfers of the bundle.  *)
(***************************************************************************)
C12_UntypedBundleReadsNothing ==
  pc = "stateRead" /\ parsedLogs.contractType \notin Families =>
    reads = << >> /\ state = EmptyState

C12_Witness ==
  /\ pc = "stateRead"
  /\ parsedLogs.contractType = "Unknown"
  /\ toAddress = "0xA1"
  /\ \E t \in Range(parsedLogs.transfers) : t.type = "ERC721" /\ t.to = "0xA1"
  /\ reads = << >>
  /\ state = EmptyState

\* An address in lower case: the same 20 bytes, whatever the case of the
\* hexadecimal digits.
Lower(a) ==
  CASE a = "0xA1" -> "0xa1"
    [] a = "0xB2" -> "0xb2"
    [] OTHER -> a

\* Two addresses are the same account.
SameAddress(a, b) == a # NULL /\ b # NULL /\ Lower(a) = Lower(b)

IsOwnerOf(call) == \E id \in { "7", "8" } : call = OwnerOfCall(id)

\* The family's transfers of the bundle (ERC721 transfers for the ERC721
\* family, TokenMinted for the dispute contract) whose destination is the
\* target address, in order.
TransfersToTarget ==
  LET type == IF parsedLogs.contractType = "ERC721" THEN "ERC721" ELSE "TokenMinted"
      hit(t) == t.type = type /\ SameAddress(t.to, toAddress)
  IN  IF parsedLogs.contractType \in { "ERC721", "MonadDummyContract" }
      THEN SelectSeq(parsedLogs.transfers, hit)
      ELSE << >>

(***************************************************************************)
(* C13 (as stated): getContractState issues one ownership lookup for each  *)
(* transfer of the family (ERC721 transfer, or mint of the dispute         *)
(* contract) whose destination is the target address, and no other; the    *)
(* ownership mapping holds the token ids whose lookup did not fail, and    *)
(* only those.                                                             *)
(***************************************************************************)
C13_OneLookupPerTransferToTarget ==
  pc = "stateRead" =>
    /\ SelectSeq(reads, IsOwnerOf) =
          [k \in 1..Len(TransfersToTarget) |->
             OwnerOfCall(TransfersToTarget[k].tokenId)]
    /\ DOMAIN state.ownership =
          { t.tokenId : t \in { x \in Range(TransfersToTarget) :
                                  OwnerOfCall(x.tokenId) \notin failing } }

\* The transfers parseLogs classifies in the logs of the receipt.
TxScopedTransfers == ParseLogs(logs).transfers

\* Step 4 of resolveDispute is over, or getTransactionLogs has responded.
PastBackfill ==
  \/ pc \in { "backfilled", "analyzed", "aiDone", "persisted", "cached",
             "responded" }
  \/ pc = "error" /\ Did("state")

(***************************************************************************)
(* C14 (as stated): in every run that assembles the evidence of a          *)
(* transaction, the historical getLogs query is issued exactly once when   *)
(* the transfers classified in the receipt are empty, and not at all       *)
(* otherwise.                                                              *)
(***************************************************************************)
C14_HistoryQueriedIffNoTransfer ==
  PastBackfill => Len(queries) = (IF Len(TxScopedTransfers) = 0 THEN 1 ELSE 0)

(***************************************************************************)
(* C14 (amended): a resolveDispute run calls getHistoricalLogs exactly     *)
(* once when the transfers classified in the receipt are empty and never   *)
(* otherwise; the call issues its one getLogs query unless getBlockNumber  *)
(* raises, and then none. A getTransactionLogs run never asks for history. *)
(***************************************************************************)
C14_HistoryRequestedIffNoTransfer ==
  PastBackfill =>
    /\ endpoint = "getTransactionLogs" => histCalls = 0 /\ queries = << >>
    /\ endpoint = "resolveDispute" =>
         /\ histCalls = (IF Len(TxScopedTransfers) = 0 THEN 1 ELSE 0)
         /\ Len(queries) =
              (IF Len(TxScopedTransfers) = 0 /\ histFail # "getBlockNumber"
               THEN 1 ELSE 0)

C14_Witness ==
  /\ pc = "analyzed"
  /\ Len(logs) > 0
  /\ Len(TxScopedTransfers) = 0
  /\ histFail = "getBlockNumber"
  /\ histCalls = 1
  /\ queries = << >>

(***************************************************************************)
(* C15: the backfill happens at most once in a run and never repeats:      *)
(* getHistoricalLogs is called at most once and at most one getLogs query  *)
(* is issued, also when the historical logs hold no classifiable transfer. *)
(***************************************************************************)
C15_AtMostOneHistoricalQuery == histCalls <= 1 /\ Len(queries) <= 1

C15_Witness ==
  /\ pc = "analyzed"
  /\ histCalls = 1
  /\ Len(queries) = 1
  /\ histFail = "none"
  /\ Len(historical) > 0
  /\ Len(parsedLogs.transfers) = 0

(***************************************************************************)
(* C16: the backfill changes the bundle only in transfers, and only by     *)
(* appending the transfers classified in the historical logs: failures,    *)
(* partialTransfers, unknownEvents, contractType and contractInfo are what *)
(* the classification of the receipt's logs left.                          *)
(***************************************************************************)
C16_BackfillAppendsTransfersOnly ==
  [][pc = "stateRead" /\ pc' = "backfilled" =>
       /\ parsedLogs'.failures = parsedLogs.failures
       /\ parsedLogs'.partialTransfers = parsedLogs.partialTransfers
       /\ parsedLogs'.unknownEvents = parsedLogs.unknownEvents
       /\ parsedLogs'.contractType = parsedLogs.contractType
       /\ parsedLogs'.contractInfo = parsedLogs.contractInfo
       /\ parsedLogs'.transfers \in
            { parsedLogs.transfers,
              parsedLogs.transfers \o ParseLogs(historical').transfers }]_vars

C16_Witness ==
  /\ pc = "backfilled"
  /\ histCalls = 1
  /\ \E h \in Range(historical) : h.topics[1] = SelOther
  /\ \E h \in Range(historical) : h.topics[1] = SelTransfer
  /\ Len(parsedLogs.transfers) = 1
  /\ parsedLogs.unknownEvents = ParseLogs(logs).unknownEvents
  /\ parsedLogs.contractType = NULL

(***************************************************************************)
(* C17: with H the block height the provider reports when the backfill     *)
(* starts, the getLogs query covers the blocks from max(0, H - 1000) to H, *)
(* both included: the lower bound is 0 whenever H is below 1000 and is     *)
(* never negative.                                                         *)
(***************************************************************************)
C17_WindowIsLastThousandBlocks ==
  \A k \in 1..Len(queries) :
    /\ queries[k].toBlock = height
    /\ queries[k].fromBlock =
         (IF height < BackfillBlocks THEN 0 ELSE height - BackfillBlocks)
    /\ queries[k].fromBlock >= 0
    /\ queries[k].fromBlock <= queries[k].toBlock

C17_Witness ==
  /\ pc = "analyzed"
  /\ height = 999
  /\ queries = << [fromBlock |-> 0, toBlock |-> 999] >>

\* The three signals of the analysis: native value above zero, contract
\* interaction, token-transfer pattern present.
SignalV == tx.value > 0

SignalC == analysis.contractInteraction

SignalT == Includes(analysis.patterns, "TOKEN_TRANSFER")

\* The decision table, row by row.
TableType(v, c, t) ==
  CASE v /\ c /\ t -> "contract_eth_transfer"
    [] v /\ c /\ ~t -> "contract_eth_transfer"
    [] v /\ ~c /\ t -> "token_transfer"
    [] ~v /\ c /\ t -> "token_transfer"
    [] ~v /\ ~c /\ t -> "token_transfer"
    [] ~v /\ c /\ ~t -> "contract_call"
    [] v /\ ~c /\ ~t -> "eth_transfer"
    [] ~v /\ ~c /\ ~t -> "unknown"

(***************************************************************************)
(* C18: transactionType is a function of the three signals V, C and T      *)
(* alone: contract_eth_transfer when V and C; otherwise token_transfer     *)
(* when T; otherwise contract_call when C; otherwise eth_transfer when V;  *)
(* otherwise unknown.                                                      *)
(***************************************************************************)
C18_TypeFollowsDecisionTable ==
  pc = "analyzed" =>
    analysis.transactionType = TableType(SignalV, SignalC, SignalT)

C18_Witness ==
  /\ pc = "analyzed"
  /\ SignalV /\ SignalC /\ SignalT
  /\ analysis.transactionType = "contract_eth_transfer"

(***************************************************************************)
(* C19 (as stated): the token-transfer signal is raised exactly when some  *)
(* transfer event has a non-null amount, be it heuristically decoded (an   *)
(* unknownEvents entry of type Transfer) or classified by a schema family  *)
(* (an entry of transfers carrying an amount), and the contract-           *)
(* interaction signal exactly when the call data is present and non-empty. *)
(***************************************************************************)
C19_SignalsFromAnyTransferAndCallData ==
  pc = "analyzed" =>
    /\ SignalT <=>
         \/ \E e \in Range(parsedLogs.unknownEvents) :
              e.type = "Transfer" /\ e.amount # NULL
         \/ \E t \in Range(parsedLogs.transfers) :
              t.type = "ERC20" /\ t.value # NULL
    /\ SignalC <=> tx.data \notin { "", "0x" }

(***************************************************************************)
(* C20: a run whose receipt has no logs and whose transaction has zero     *)
(* value and no call data ends with transactionType unknown and an empty   *)
(* pattern set, also when the backfill has added historical transfers.     *)
(***************************************************************************)
C20_NothingObservedIsUnknown ==
  pc = "analyzed" /\ logs = << >> /\ tx.value = 0 /\ tx.data = "0x" =>
    analysis.transactionType = "unknown" /\ analysis.patterns = << >>

C20_Witness ==
  /\ pc = "analyzed"
  /\ logs = << >>
  /\ tx.value = 0
  /\ tx.data = "0x"
  /\ Len(parsedLogs.transfers) > 0
  /\ analysis.transactionType = "unknown"
  /\ analysis.patterns = << >>

\* The attempts of initProvider whose probe failed.
FailedProbes == { k \in 1..Len(probes) : probes[k] = "fail" }

(***************************************************************************)
(* C21 (as stated): initProvider makes at most 3 attempts; no attempt      *)
(* follows one whose probe succeeded, which ends the initialisation; after *)
(* the failed attempt k (k = 1, 2) it waits k seconds before the next; and *)
(* the failure is raised only once three probes have failed, with no wait  *)
(* after the third.                                                        *)
(***************************************************************************)
C21_ThreeAttemptsStopAtFirstLiveProbe ==
  /\ Len(probes) <= 3
  /\ \A k \in 1..Len(probes) :
       probes[k] = "ok" => k = Len(probes) /\ initPc = "ready"
  /\ Len(waits) <= 2
  /\ \A k \in 1..Len(waits) : waits[k] = 1000 * k /\ probes[k] = "fail"
  /\ initPc = "waiting" => Len(waits) = Len(probes)
  /\ initPc = "failed" => FailedProbes = 1..3 /\ Len(waits) = 2

(***************************************************************************)
(* C22 (as stated): every provider query of a request is issued on a       *)
(* handle whose network probe has succeeded, also while initProvider is    *)
(* still retrying and after it has failed for good.                        *)
(***************************************************************************)
C22_QueriesOnlyOnProbedHandle ==
  \A k \in 1..Len(issued) : issued[k].probed

\* A fetch that follows the retry contract: at most 3 provider calls, a wait
\* of 1 second before every call but the first, and the failure raised only
\* by the third failed call.
FollowsRetryContract(f) ==
  /\ f.calls <= 3
  /\ \A k \in 1..Len(f.delays) : f.delays[k] = 1000
  /\ f.st \in { "pending", "ok", "absent", "failed" } =>
       Len(f.delays) = f.calls - 1
  /\ f.st = "failed" => f.calls = 3

(***************************************************************************)
(* C23 (as stated): the receipt fetch and the transaction fetch each make  *)
(* at most 3 provider calls with a wait of 1 second between two calls, and *)
(* raise to the run only when the third call has failed.                   *)
(***************************************************************************)
C23_BothFetchesRetry == FollowsRetryContract(rcpt) /\ FollowsRetryContract(txf)

\* Nothing after the fetch has been done for the run; what the cache holds,
\* if anything, a peer wrote.
NothingBeyondFetch ==
  /\ trail = << "fetch" >>
  /\ parsedLogs = EmptyParsedLogs
  /\ state = EmptyState
  /\ reads = << >>
  /\ queries = << >>
  /\ histCalls = 0
  /\ NoCollab
  /\ wrote = << >>

Awaiting == pc = "fetch"

\* Classification has started.
ClassificationStarted == pc = "parseLogs" \/ Did("classify")

\* The fetch has returned to the run.
Completed(f) == f.st \in { "ok", "absent" }

(***************************************************************************)
(* C25 (as stated): at every entry point, whenever the run is waiting for  *)
(* a fetch both the receipt fetch and the transaction fetch have been      *)
(* issued, and classification has not started unless both have completed.  *)
(***************************************************************************)
C25_BothIssuedBeforeAwaitEverywhere ==
  /\ Awaiting => rcpt.calls >= 1 /\ txf.calls >= 1
  /\ ClassificationStarted => Completed(rcpt) /\ Completed(txf)

(***************************************************************************)
(* C25 (amended): resolveDispute issues the receipt fetch and the          *)
(* transaction fetch before it awaits either; getTransactionLogs issues    *)
(* the transaction fetch only after the receipt fetch has returned a       *)
(* receipt; at both entry points classification does not start until both  *)
(* fetches have completed, the receipt fetch with a receipt.               *)
(***************************************************************************)
C25_ConcurrentInDisputeSequentialInLogs ==
  /\ endpoint = "resolveDispute" /\ Awaiting => rcpt.calls >= 1 /\ txf.calls >= 1
  /\ endpoint = "getTransactionLogs" /\ txf.calls >= 1 => rcpt.st = "ok"
  /\ ClassificationStarted => rcpt.st = "ok" /\ Completed(txf)

C25_Witness ==
  /\ endpoint = "resolveDispute"
  /\ Awaiting
  /\ rcpt.st = "pending"
  /\ txf.st = "pending"

\* a is an initial segment of b.
IsPrefix(a, b) == Len(a) <= Len(b) /\ \A i \in 1..Len(a) : a[i] = b[i]

\* The steps of a resolveDispute run in the order of the code, with and
\* without the backfill, and those of a getTransactionLogs run.
DisputeSteps ==
  << "fetch", "classify", "state", "backfill", "analysis", "ai", "persist",
     "cache", "respond" >>

DisputeStepsNoBackfill ==
  << "fetch", "classify", "state", "analysis", "ai", "persist", "cache",
     "respond" >>

LogsSteps == << "fetch", "classify", "state", "cache", "respond" >>

\* Step b is never done unless step a was done before it.
Precedes(a, b) ==
  \A j \in DOMAIN trail : trail[j] = b => \E i \in 1..(j - 1) : trail[i] = a

(***************************************************************************)
(* C26 (as stated): the cache store comes after the pattern analysis and   *)
(* before the hand-off to the AI and persistence collaborators, so         *)
(* whenever a collaborator has been called, and whether it failed or not,  *)
(* the bundle has been handed to the cache.                                *)
(***************************************************************************)
C26_CachedBeforeHandOff ==
  /\ Precedes("fetch", "classify")
  /\ Precedes("classify", "state")
  /\ Precedes("state", "analysis")
  /\ Precedes("analysis", "cache") \/ endpoint = "getTransactionLogs"
  /\ Precedes("cache", "ai")
  /\ Precedes("cache", "persist")
  /\ ai # "none" \/ db # "none" => wrote # << >>

(***************************************************************************)
(* C26 (amended): the steps of a resolveDispute run happen in the order    *)
(* fetch, classify, read contract state, backfill (if triggered), pattern  *)
(* analysis, AI call, persistence, cache store, response; those of a       *)
(* getTransactionLogs run in the order fetch, classify, read contract      *)
(* state, cache store, response. A failure of the AI call ends the run     *)
(* with the error outcome before persistence and before any cache write;   *)
(* a failure of persistence does not prevent the cache store, and the      *)
(* value handed to the cache holds the AI solution.                        *)
(***************************************************************************)
C26_CollaboratorsBeforeCache ==
  /\ endpoint = "resolveDispute" =>
       IsPrefix(trail, DisputeSteps) \/ IsPrefix(trail, DisputeStepsNoBackfill)
  /\ endpoint = "getTransactionLogs" => IsPrefix(trail, LogsSteps)
  /\ Did("backfill") => histCalls = 1
  /\ ai = "failed" => pc = "error" /\ db = "none" /\ wrote = << >>
  /\ Did("persist") => ai = "ok"
  /\ endpoint = "resolveDispute" /\ Did("cache") =>
       /\ ai = "ok"
       /\ db \in { "saved", "failed" }
       /\ Len(wrote) = 1
       /\ wrote[1].data.aiSolution = "AI text"

C26_Witness ==
  /\ endpoint = "resolveDispute"
  /\ pc = "responded"
  /\ Did("backfill")
  /\ db = "failed"
  /\ RunCacheKey \in DOMAIN cache

\* A getCachedData call has just returned.
JustRead == got # NoGet

PutsTo(key) == { i \in DOMAIN wrote : wrote[i].key = key /\ wrote[i].mode = "up" }

Latest(S) == CHOOSE i \in S : \A j \in S : j <= i

(***************************************************************************)
(* C28 (as stated): with the backend available, a get of a key returns a   *)
(* bundle identical to the one of the latest put to that key when fewer    *)
(* than 3600 seconds have passed since that put, whether the put named the *)
(* ttl of the runs or none, and absent from then on and when nothing was   *)
(* put.                                                                    *)
(***************************************************************************)
C28_RoundTripUntilExpiry ==
  JustRead /\ cacheMode = "up" =>
    IF PutsTo(got.key) = {} THEN got.result = Absent
    ELSE LET w == wrote[Latest(PutsTo(got.key))]
         IN  IF got.at < w.at + 3600
             THEN got.result = Found(w.data)
             ELSE got.result = Absent

\* The requests of two cacheData calls agree on all three components.
SameTriple(a, b) ==
  /\ a.req.txHash = b.req.txHash
  /\ a.req.contractAddress = b.req.contractAddress
  /\ a.req.toAddress = b.req.toAddress

Performed(key) == { i \in PutsTo(key) : ~StringifyRaises(wrote[i].data) }

(***************************************************************************)
(* C30: when several runs write the same key, the cache holds under that   *)
(* key, at every moment, exactly the value and the expiry of the latest    *)
(* write that was performed, never a mixture of two bundles, and nothing   *)
(* while no write was performed; no run is kept from writing by another.   *)
(***************************************************************************)
C30_LastWriterWins ==
  \A req \in CacheRequests :
    LET k == KeyOf(req)
    IN  IF Performed(k) = {} THEN k \notin DOMAIN cache
        ELSE LET w == wrote[Latest(Performed(k))]
             IN  /\ k \in DOMAIN cache
                 /\ cache[k].text = Stringify(w.data)
                 /\ cache[k].expires = w.at + 3600

C30_Witness ==
  /\ Len(wrote) = 2
  /\ wrote[1].key = wrote[2].key
  /\ wrote[1].data # wrote[2].data
  /\ Performed(wrote[1].key) = { 1, 2 }
  /\ cache[wrote[2].key].text = Stringify(wrote[2].data)

\* The run has handed its bundle to a collaborator or to the cache.
HandedOver == Did("ai") \/ Did("cache")

\* What the run assembled: bundle, contract state, pattern analysis.
Assembled == << parsedLogs, state, analysis >>

\* The bundle inside a response, whose contractType getTransactionLogs
\* defaults to 'unknown'.
SameBundle(sent, pl) ==
  /\ sent.transfers = pl.transfers
  /\ sent.failures = pl.failures
  /\ sent.partialTransfers = pl.partialTransfers
  /\ sent.unknownEvents = pl.unknownEvents
  /\ sent.contractType = pl.contractType
       \/ (sent.contractType = "unknown" /\ pl.contractType = NULL)

Raised(log) == TryERC20(EmptyParsedLogs, log).threw

\* The entries of the bundle that carry the log index i.
EntriesAt(pl, i) ==
  CountAt(pl.transfers, i) + CountAt(pl.failures, i)
    + CountAt(pl.partialTransfers, i) + CountAt(pl.unknownEvents, i)

(***************************************************************************)
(* C32 (as stated): after a log on which a decoder raised, every later log *)
(* of the batch is classified: it has an entry in the bundle, from a       *)
(* schema family or from the heuristic path.                               *)
(***************************************************************************)
C32_EveryLaterLogClassified ==
  \A i \in 1..idx : \A j \in 1..idx :
    i < j /\ Raised(logs[i]) => EntriesAt(parsedLogs, logs[j].logIndex) >= 1

(***************************************************************************)
(* C32 (amended): an error raised while classifying a log stays with that  *)
(* log. The loop goes on to every later log, parseLogs returns only after  *)
(* the last one and never raises, and each later log has exactly one entry *)
(* when it has a topic and none when its topic list is empty.              *)
(***************************************************************************)
C32_RaiseStaysWithItsLog ==
  /\ \A i \in 1..idx : \A j \in 1..idx :
       i < j /\ Raised(logs[i]) =>
         EntriesAt(parsedLogs, logs[j].logIndex)
           = (IF Len(logs[j].topics) > 0 THEN 1 ELSE 0)
  /\ pc = "parseLogs" => ENABLED (ParseLogStep \/ ParseLogsReturn)
  /\ pc = "parsed" => idx = Len(logs)

\* Every decoder raised on the first log, which went to the heuristic path;
\* the second was classified as a transfer.
C32_Witness ==
  /\ pc = "parsed"
  /\ idx = 2
  /\ Raised(logs[1])
  /\ TryDummy(EmptyParsedLogs, logs[1]).threw
  /\ Len(parsedLogs.unknownEvents) = 1
  /\ parsedLogs.unknownEvents[1].logIndex = 0
  /\ Len(parsedLogs.transfers) = 1
  /\ parsedLogs.transfers[1].logIndex = 1

(***************************************************************************)
(* C33: after analyzeTransactionPattern the pattern tags of the analysis   *)
(* form a set: no tag occurs at two positions of patterns, however many    *)
(* heuristic Transfer-shaped or single-address events the bundle holds.    *)
(***************************************************************************)
C33_PatternsFormASet ==
  pc = "analyzed" =>
    \A i \in DOMAIN analysis.patterns : \A j \in DOMAIN analysis.patterns :
      i # j => analysis.patterns[i] # analysis.patterns[j]

\* contractLogs of the getTransactionLogs response: the four lengths added.
EntryCount(pl) ==
  Len(pl.transfers) + Len(pl.failures) + Len(pl.partialTransfers)
    + Len(pl.unknownEvents)

(***************************************************************************)
(* C34: every log of the batch contributes at most one entry to the four   *)
(* sequences transfers, failures, partialTransfers and unknownEvents, so   *)
(* the four lengths add up to at most the number of logs handled, and in   *)
(* the response getTransactionLogs builds from the bundle contractLogs is  *)
(* at most totalLogs.                                                      *)
(***************************************************************************)
C34_AtMostOneEntryPerLog ==
  /\ \A log \in Handled : EntriesAt(parsedLogs, log.logIndex) <= 1
  /\ EntryCount(parsedLogs) <= idx
  /\ pc = "parsed" =>
       LET data == LogsData(RunTxHash, RunContract, receipt, tx, TRUE,
                            parsedLogs, state, Len(logs))
       IN  /\ data.totalLogs = Len(logs)
           /\ data.contractLogs = EntryCount(parsedLogs)
           /\ data.contractLogs <= data.totalLogs

\* A batch of two logs was classified: the first has its entry, the second,
\* without topics, has none.
C34_Witness ==
  /\ pc = "parsed"
  /\ Len(logs) = 2
  /\ EntriesAt(parsedLogs, 0) = 1
  /\ Len(parsedLogs.transfers) = 1
  /\ logs[2].topics = << >>
  /\ EntriesAt(parsedLogs, 1) = 0

\* The Transfer decoder of the dispute-contract family accepts the log.
DummyTransferAccepts(log) ==
  LET pl == ParseLog(DUMMY_DISPUTE_CONTRACT_ABI, log)
  IN  pl.r = "ok" /\ pl.name = "Transfer" /\ ~ArgsThrow(pl)

\* Every log handled so far carries the Transfer selector.
PureTransferBatch == \A log \in Handled : Head(log.topics) = SelTransfer

(***************************************************************************)
(* C35: no log is classified as the Transfer event of the dispute-contract *)
(* family. Every log its Transfer decoder accepts is accepted by the       *)
(* fungible-family decoder, which is tried first, so transfers holds no    *)
(* entry of type 'MonadToken' and a batch of Transfer logs only never has  *)
(* contractType 'MonadDummyContract'.                                      *)
(***************************************************************************)
C35_NoMonadTokenTransfer ==
  /\ \A log \in Handled :
       DummyTransferAccepts(log) => TryERC20(EmptyParsedLogs, log).parsed
  /\ \A k \in DOMAIN parsedLogs.transfers : parsedLogs.transfers[k].type # "MonadToken"
  /\ (\A log \in Handled : Len(log.topics) > 0) /\ PureTransferBatch =>
       parsedLogs.contractType # "MonadDummyContract"

\* Two Transfer logs were handled: one that both Transfer decoders accept,
\* classified as fungible, and one on which every decoder raised, the
\* dispute-contract one included.
C35_Witness ==
  /\ idx = 2
  /\ Len(logs[1].topics) > 0 /\ Len(logs[2].topics) > 0
  /\ PureTransferBatch
  /\ DummyTransferAccepts(logs[1])
  /\ TryDummy(EmptyParsedLogs, logs[2]).threw
  /\ Raised(logs[2])
  /\ Len(parsedLogs.transfers) = 1
  /\ parsedLogs.transfers[1].type = "ERC20"
  /\ parsedLogs.contractType = "ERC20"

\* An entry for the key of the run is in the cache and has not expired.
EntryPresent ==
  RunCacheKey \in DOMAIN cache /\ now < cache[RunCacheKey].expires

(***************************************************************************)
(* C36: no run reads the cache. No getCachedData call is made; a run       *)
(* issues its provider fetches when it leaves the start also while an      *)
(* unexpired entry for its key is present; a peer's write to the cache     *)
(* changes no step and no value of the run. The cache is only written: at  *)
(* most one cacheData call per run, with ttl 3600, exactly one in a run    *)
(* that responds, and on a working backend the call replaces whatever the  *)
(* key held.                                                               *)
(***************************************************************************)
C36_RunsNeverReadTheCache ==
  /\ [](got = NoGet)
  /\ [](pc # "start" => rcpt # NotIssued)
  /\ [][pc = "start" /\ pc' # "start" /\ EntryPresent => rcpt' = Issue(rcpt)]_vars
  /\ [](Len(wrote) <= 1)
  /\ [](\A i \in DOMAIN wrote : wrote[i].ttl = << 3600 >> /\ wrote[i].key = RunCacheKey)
  /\ [](pc = "responded" => Len(wrote) = 1)
  /\ [](pc = "error" /\ wrote # << >> => StringifyRaises(wrote[1].data))
  /\ [][wrote' # wrote /\ cacheMode = "up" /\ ~StringifyRaises(wrote'[1].data) =>
          cache'[RunCacheKey] = [text |-> Stringify(wrote'[1].data),
                                 expires |-> now + 3600]]_vars

\* A peer's entry was in the cache, unexpired, and the run fetched, went
\* through all its steps and wrote its own response over it.
C36_Witness ==
  /\ endpoint = "resolveDispute"
  /\ pc = "responded"
  /\ rcpt.calls >= 1 /\ txf.calls = 1
  /\ Len(wrote) = 1
  /\ wrote[1].data # PeerData
  /\ EntryPresent
  /\ cache[RunCacheKey].text = Stringify(wrote[1].data)

\* What parseLogs returned for the logs of the receipt.
TxScoped == ParseLogs(logs)

(***************************************************************************)
(* C37: contract state is read before the backfill and never again. From   *)
(* the state read on, the ContractState of the run and the reads made for  *)
(* it are those getContractState derives from the classification of the    *)
(* receipt's logs, and contractType is the one that classification left:   *)
(* the backfill step changes none of them, whatever transfers it appends.  *)
(***************************************************************************)
C37_StateReadOnceBeforeBackfill ==
  /\ [](Did("backfill") => Precedes("state", "backfill"))
  /\ [](StateWasRead =>
          /\ state = GetContractStateOf(TxScoped, toAddress, failing).state
          /\ reads = GetContractStateOf(TxScoped, toAddress, failing).reads
          /\ parsedLogs.contractType = TxScoped.contractType)
  /\ [][StateWasRead =>
          /\ UNCHANGED << state, reads >>
          /\ parsedLogs'.contractType = parsedLogs.contractType]_vars

\* The receipt held no event a schema family classifies, the backfill
\* appended a non-fungible transfer, and with a target address given no
\* ownership was looked up and contractType was left as it was.
C37_Witness ==
  /\ pc = "analyzed"
  /\ toAddress = "0xA1"
  /\ Did("backfill")
  /\ Len(TxScoped.transfers) = 0
  /\ \E k \in DOMAIN parsedLogs.transfers : parsedLogs.transfers[k].type = "ERC721"
  /\ parsedLogs.contractType \in { NULL, "Unknown" }
  /\ state.ownership = << >>
  /\ \A k \in DOMAIN parsedLogs.transfers :
       parsedLogs.transfers[k].type = "ERC721" =>
         OwnerOfCall(parsedLogs.transfers[k].tokenId) \notin Range(reads)

\* The metadata reads of the family of the bundle, in the order of the code.
InfoReads(contractType) ==
  CASE contractType = "ERC20" -> ERC20Info
    [] contractType = "ERC721" -> ERC721Info
    [] contractType = "MonadDummyContract" -> MonadInfo
    [] OTHER -> << >>

\* The calls of the metadata reads attempted: each one up to and including
\* the first that fails.
InfoAttempted(infos, failed) ==
  { infos[k].call : k \in { n \in DOMAIN infos :
                             \A m \in 1..(n - 1) : infos[m].call \notin failed } }

(***************************************************************************)
(* C38: with no target address, getContractState reads no balance and      *)
(* looks no owner up, for any family, and returns empty balances and       *)
(* ownership mappings; the metadata reads of the family (symbol, name,     *)
(* decimals, or the two counters) are attempted all the same, in their     *)
(* order up to the first that fails, and they are the only reads made.     *)
(***************************************************************************)
C38_NoTargetNoBalanceNoOwnership ==
  StateWasRead /\ toAddress = NULL =>
    /\ state.balances = << >>
    /\ state.ownership = << >>
    /\ "balanceOf" \notin Range(reads)
    /\ \A t \in Range(parsedLogs.transfers) :
         "tokenId" \in DOMAIN t => OwnerOfCall(t.tokenId) \notin Range(reads)
    /\ Range(reads) = InfoAttempted(InfoReads(parsedLogs.contractType), failing)
    /\ InfoReads(parsedLogs.contractType) # << >> => reads # << >>

\* A non-fungible bundle with two transfers was read without a target: the
\* two metadata reads were made and answered, nothing else was read.
C38_Witness ==
  /\ pc = "stateRead"
  /\ toAddress = NULL
  /\ parsedLogs.contractType = "ERC721"
  /\ Len(parsedLogs.transfers) = 2
  /\ parsedLogs.transfers[1].type = "ERC721"
  /\ reads = << "symbol", "name" >>
  /\ DOMAIN state.contractInfo = { "symbol", "name" }
  /\ state.ownership = << >>
  /\ state.balances = << >>

\* The historical query of the run failed: getBlockNumber or getLogs raised.
HistoryFailed == histCalls = 1 /\ histFail \in { "getBlockNumber", "getLogs" }

(***************************************************************************)
(* C39: a failure of the historical query is absorbed by the backfill      *)
(* step. When the block-height call or the log-range call raises, the step *)
(* gets the empty list, leaves the bundle as it was, with no transfer, and *)
(* ends normally; the pattern analysis is the next step of the run and the *)
(* failure never takes the run to the error outcome.                       *)
(***************************************************************************)
C39_HistoryFailureAbsorbed ==
  /\ [][pc = "stateRead" /\ histCalls' = 1 /\ histFail' # "none" =>
          /\ pc' = "backfilled"
          /\ parsedLogs' = parsedLogs
          /\ historical' = << >>]_vars
  /\ [](HistoryFailed =>
          /\ Len(parsedLogs.transfers) = 0
          /\ pc \in { "backfilled", "analyzed" }
          /\ pc = "backfilled" => ENABLED AnalyzePattern
          /\ pc = "analyzed" => analysis = AnalyzeTransactionPattern(tx, receipt, parsedLogs))

\* The log-range call raised after the block height was read, and the run
\* went on to the pattern analysis with no transfer in the bundle.
C39_Witness ==
  /\ pc = "analyzed"
  /\ Did("backfill")
  /\ histFail = "getLogs"
  /\ Len(queries) = 1
  /\ historical = << >>
  /\ Len(parsedLogs.transfers) = 0
  /\ Len(parsedLogs.unknownEvents) > 0

\* The receipt fetch returned a receipt and the transaction fetch returned
\* null.
ReceiptWithoutTransaction ==
  endpoint = "resolveDispute" /\ rcpt.st = "ok" /\ txf.st = "absent"

(***************************************************************************)
(* C40: when the receipt is present and the transaction fetch returned     *)
(* absent, resolveDispute produces no pattern analysis. The run classifies *)
(* the logs, reads the state and backfills as usual; at the analysis step  *)
(* the analyzer raises, the run ends in the error outcome, and the AI      *)
(* service is not called, nothing is saved and cacheData is not called.    *)
(***************************************************************************)
C40_AbsentTransactionEndsInError ==
  /\ [](ReceiptWithoutTransaction =>
          /\ analysis = InitialAnalysis(receipt)
          /\ pc \notin { "analyzed", "aiDone", "persisted", "cached", "responded",
                        "notFound" }
          /\ ai = "none" /\ db = "none" /\ wrote = << >>
          /\ pc = "error" => Did("analysis") /\ StateWasRead
          /\ Did("analysis") => pc = "error")
  /\ [][ReceiptWithoutTransaction /\ pc = "backfilled" /\ pc' # pc => pc' = "error"]_vars

\* Such a run went through classification, state read and backfill and ended
\* in the error outcome at the analysis.
C40_Witness ==
  /\ ReceiptWithoutTransaction
  /\ pc = "error"
  /\ Len(logs) > 0
  /\ Did("backfill")
  /\ Did("analysis")
  /\ ~Did("ai")
  /\ wrote = << >>
====
